---------------------------- MODULE Spec2Model ----------------------------
(***************************************************************************)
(* A model of the commit collector (src/collect/collect_commits.py):       *)
(* the per-repository traversal, the bot filter, the completion-marker     *)
(* cache, the orchestrating loop of collect_commits with its worker pool,  *)
(* the single quota retry, the batch flushes, and the read-merge-write of  *)
(* upload_to_s3 against the object store.                                  *)
(*                                                                         *)
(* Representation.  A Python str on which the code does character work     *)
(* (logins, names, e-mails) is a sequence of one-character strings; a      *)
(* repository name and an object key are sequences of tokens; a dict is    *)
(* an insertion-ordered sequence of [k, v] entries with unique keys; a     *)
(* date is its day ordinal within 2025 and a datetime is a record          *)
(* [ord, sec, off] (local day, local second of the day, UTC offset in      *)
(* seconds).                                                               *)
(***************************************************************************)
EXTENDS Integers, Sequences, FiniteSets, TLC

(***************************************************************************)
(* Generic helpers                                                         *)
(***************************************************************************)
Range(s) == {s[i] : i \in 1..Len(s)}

\* Insertion-ordered dict: a sequence of [k |-> key, v |-> value].
DictKeys(d) == {d[i].k : i \in 1..Len(d)}

DictHas(d, key) == \E i \in 1..Len(d) : d[i].k = key

DictGet(d, key) == d[CHOOSE i \in 1..Len(d) : d[i].k = key].v

\* d[key] = val: replaces the value in place, or appends a new entry.
DictPut(d, key, val) ==
    IF DictHas(d, key)
    THEN [i \in 1..Len(d) |-> IF d[i].k = key THEN [k |-> key, v |-> val] ELSE d[i]]
    ELSE Append(d, [k |-> key, v |-> val])

\* list(d.values())
DictValues(d) == [i \in 1..Len(d) |-> d[i].v]

\* str.lower() on the characters the model uses.
LowerChar(c) ==
    CASE c = "A" -> "a"
      [] c = "B" -> "b"
      [] c = "C" -> "c"
      [] c = "D" -> "d"
      [] c = "E" -> "e"
      [] c = "F" -> "f"
      [] c = "G" -> "g"
      [] c = "H" -> "h"
      [] c = "I" -> "i"
      [] c = "J" -> "j"
      [] c = "K" -> "k"
      [] c = "L" -> "l"
      [] c = "M" -> "m"
      [] c = "N" -> "n"
      [] c = "O" -> "o"
      [] c = "P" -> "p"
      [] c = "Q" -> "q"
      [] c = "R" -> "r"
      [] c = "S" -> "s"
      [] c = "T" -> "t"
      [] c = "U" -> "u"
      [] c = "V" -> "v"
      [] c = "W" -> "w"
      [] c = "X" -> "x"
      [] c = "Y" -> "y"
      [] c = "Z" -> "z"
      [] OTHER -> c

Lower(s) == [i \in 1..Len(s) |-> LowerChar(s[i])]

\* Python's  pat in s  on strings.
Contains(s, pat) ==
    \E i \in 0..(Len(s) - Len(pat)) : SubSeq(s, i + 1, i + Len(pat)) = pat

(***************************************************************************)
(* Bot classification                                                      *)
(***************************************************************************)
BOT_USERNAMES ==
    { <<"d","e","p","e","n","d","a","b","o","t","[","b","o","t","]">>,
      <<"d","e","p","e","n","d","a","b","o","t","-","p","r","e","v","i","e","w","[","b","o","t","]">>,
      <<"r","e","n","o","v","a","t","e","[","b","o","t","]">>,
      <<"r","e","n","o","v","a","t","e","b","o","t">>,
      <<"g","r","e","e","n","k","e","e","p","e","r","[","b","o","t","]">>,
      <<"s","n","y","k","-","b","o","t">>,
      <<"g","i","t","h","u","b","-","a","c","t","i","o","n","s","[","b","o","t","]">>,
      <<"c","o","d","e","c","o","v","[","b","o","t","]">>,
      <<"s","o","n","a","r","c","l","o","u","d","[","b","o","t","]">>,
      <<"m","e","r","g","i","f","y","[","b","o","t","]">>,
      <<"a","l","l","c","o","n","t","r","i","b","u","t","o","r","s","[","b","o","t","]">>,
      <<"i","m","g","b","o","t","[","b","o","t","]">>,
      <<"d","e","p","e","n","d","a","b","o","t">>,
      <<"r","e","n","o","v","a","t","e">> }

\* is_bot_user without the lower() calls: the tests are case-sensitive.
is_bot_user_cased(username, author_name, author_email) ==
    IF username = << >> THEN TRUE
    ELSE IF username \in BOT_USERNAMES
            \/ Contains(username, <<"[","b","o","t","]">>) THEN TRUE
    ELSE IF author_name # << >>
            /\ ( Contains(author_name, <<"b","o","t">>)
                 \/ Contains(author_name, <<"[","b","o","t","]">>) ) THEN TRUE
    ELSE IF author_email # << >>
            /\ ( Contains(author_email, <<"n","o","r","e","p","l","y">>)
                 \/ Contains(author_email, <<"b","o","t">>) ) THEN TRUE
    ELSE FALSE

\* A falsy str (None or '') is the empty sequence.
is_bot_user(username, author_name, author_email) ==
    IF username = << >> THEN TRUE
    ELSE IF Lower(username) \in BOT_USERNAMES
            \/ Contains(Lower(username), <<"[","b","o","t","]">>) THEN TRUE
    ELSE IF author_name # << >>
            /\ ( Contains(Lower(author_name), <<"b","o","t">>)
                 \/ Contains(Lower(author_name), <<"[","b","o","t","]">>) ) THEN TRUE
    ELSE IF author_email # << >>
            /\ ( Contains(Lower(author_email), <<"n","o","r","e","p","l","y">>)
                 \/ Contains(Lower(author_email), <<"b","o","t">>) ) THEN TRUE
    ELSE FALSE

(***************************************************************************)
(* Dates                                                                   *)
(***************************************************************************)
SecondsPerDay == 86400

\* Days before the first of each month of 2025 (not a leap year).
DaysBeforeMonth == <<0, 31, 59, 90, 120, 151, 181, 212, 243, 273, 304, 334, 365>>

MonthOf(ord) == CHOOSE m \in 1..12 : DaysBeforeMonth[m] < ord /\ ord <= DaysBeforeMonth[m + 1]

\* Two-digit decimal numerals, '%m' and '%d'.
Pad2 == << "01", "02", "03", "04", "05", "06", "07", "08", "09", "10",
           "11", "12", "13", "14", "15", "16", "17", "18", "19", "20",
           "21", "22", "23", "24", "25", "26", "27", "28", "29", "30", "31" >>

\* date.strftime('%Y-%m-%d'): the text of a date, as <<year, month, day>> numerals.
strftime(ord) == <<"2025", Pad2[MonthOf(ord)], Pad2[ord - DaysBeforeMonth[MonthOf(ord)]]>>

NumeralValue(txt) == CHOOSE n \in 1..Len(Pad2) : Pad2[n] = txt

\* The date a '%Y-%m-%d' text names.
strptime(txt) == DaysBeforeMonth[NumeralValue(txt[2])] + NumeralValue(txt[3])

\* datetime.isoformat(): the local date, the local time and the offset as written.
isoformat(dt) == [date |-> strftime(dt.ord), time |-> dt.sec, tz |-> dt.off]

\* dateutil's parser.parse on an ISO text: the datetime keeps the text's offset.
date_parse(txt) == [ord |-> strptime(txt.date), sec |-> txt.time, off |-> txt.tz]

\* datetime.date(): the calendar date in the datetime's own offset.
date_of(dt) == dt.ord

\* The calendar date of the same instant in UTC.
UtcDate(dt) ==
    LET t == dt.ord * SecondsPerDay + dt.sec - dt.off
    IN  t \div SecondsPerDay

(***************************************************************************)
(* The upstream forge: the organization's repositories, their branches and *)
(* the commits each branch lists for the window.  The data does not change *)
(* during a behaviour.                                                     *)
(***************************************************************************)
\* Repository names, as token sequences (the second one contains ".done").
RepoA == <<"svc-api">>

RepoB == <<"lib", ".done">>

\* get_repositories: the active repositories of the organization, in order.
AllRepos == <<RepoA, RepoB>>

\* 2025-02-01 and 2025-02-02 as day ordinals of 2025.
Feb1 == 32

Feb2 == 33

\* validate_date_range's result for START_DATE=2025-02-01, END_DATE=2025-02-02.
start_date == [ord |-> Feb1, sec |-> 0, off |-> 0]

end_date == [ord |-> Feb2, sec |-> 86399, off |-> 0]

\* A commit as the API client presents it: commit.author (None when has_author
\* is FALSE), commit.commit.author.{name,email,date}, commit.commit.message,
\* commit.html_url, and the committer's date, which the collector never reads.
Commit(sha) ==
    CASE sha = "c1" ->
           [has_author |-> TRUE, login |-> <<"a","l","i","c","e">>,
            name |-> <<"A","l","i","c","e">>, email |-> <<"a","l","@","x",".","i","o">>,
            date |-> [ord |-> 32, sec |-> 86399, off |-> 0],
            committer_date |-> [ord |-> 33, sec |-> 43200, off |-> 0],
            message |-> "m-c1", html_url |-> "u-c1"]
      [] sha = "c2" ->
           [has_author |-> TRUE, login |-> <<"d","e","p","e","n","d","a","b","o","t","[","b","o","t","]">>,
            name |-> <<"d","e","p">>, email |-> <<"d","@","x",".","i","o">>,
            date |-> [ord |-> 32, sec |-> 3600, off |-> 0],
            committer_date |-> [ord |-> 33, sec |-> 43200, off |-> 0],
            message |-> "m-c2", html_url |-> "u-c2"]
      [] sha = "c3" ->
           [has_author |-> TRUE, login |-> <<"b","o","b">>,
            name |-> <<"R","o","b">>, email |-> <<"r","o","b","@","x",".","i","o">>,
            date |-> [ord |-> 32, sec |-> 84600, off |-> -18000],
            committer_date |-> [ord |-> 33, sec |-> 43200, off |-> 0],
            message |-> "m-c3", html_url |-> "u-c3"]
      [] sha = "c4" ->
           [has_author |-> TRUE, login |-> <<"a","l","i","c","e">>,
            name |-> <<"A","l","i","c","e">>, email |-> <<"a","l","@","x",".","i","o">>,
            date |-> [ord |-> 33, sec |-> 0, off |-> 0],
            committer_date |-> [ord |-> 34, sec |-> 43200, off |-> 0],
            message |-> "m-c4", html_url |-> "u-c4"]
      [] sha = "c5" ->
           [has_author |-> TRUE, login |-> <<"c","a","r","o","l">>,
            name |-> <<"A","b","b","o","t","t">>, email |-> <<"c","@","x",".","i","o">>,
            date |-> [ord |-> 32, sec |-> 7200, off |-> 0],
            committer_date |-> [ord |-> 33, sec |-> 43200, off |-> 0],
            message |-> "m-c5", html_url |-> "u-c5"]
      [] sha = "c6" ->
           [has_author |-> TRUE, login |-> <<"d","a","v","e">>,
            name |-> <<"D","a","v","e">>, email |-> <<"d","@","n","o","r","e","p","l","y",".","x">>,
            date |-> [ord |-> 33, sec |-> 7200, off |-> 0],
            committer_date |-> [ord |-> 34, sec |-> 43200, off |-> 0],
            message |-> "m-c6", html_url |-> "u-c6"]
      [] sha = "c7" ->
           [has_author |-> FALSE, login |-> << >>,
            name |-> <<"E","v","e">>, email |-> <<"e","@","x",".","i","o">>,
            date |-> [ord |-> 33, sec |-> 3600, off |-> 0],
            committer_date |-> [ord |-> 34, sec |-> 43200, off |-> 0],
            message |-> "m-c7", html_url |-> "u-c7"]
      [] sha = "c8" ->
           [has_author |-> TRUE, login |-> <<"S","n","y","k","-","B","o","t">>,
            name |-> <<"s","n">>, email |-> <<"s","@","x",".","i","o">>,
            date |-> [ord |-> 33, sec |-> 3600, off |-> 0],
            committer_date |-> [ord |-> 34, sec |-> 43200, off |-> 0],
            message |-> "m-c8", html_url |-> "u-c8"]
      [] sha = "c9" ->
           [has_author |-> TRUE, login |-> <<"e","r","i","n">>,
            name |-> <<"E","r","i","n">>, email |-> <<"r","o","b","o","t","@","x",".","i","o">>,
            date |-> [ord |-> 32, sec |-> 1800, off |-> 19800],
            committer_date |-> [ord |-> 33, sec |-> 43200, off |-> 0],
            message |-> "m-c9", html_url |-> "u-c9"]
      [] sha = "c10" ->
           [has_author |-> TRUE, login |-> <<"a","p","p","[","b","o","t","]">>,
            name |-> <<"a","p","p">>, email |-> <<"a","@","x",".","i","o">>,
            date |-> [ord |-> 32, sec |-> 1800, off |-> 0],
            committer_date |-> [ord |-> 33, sec |-> 43200, off |-> 0],
            message |-> "m-c10", html_url |-> "u-c10"]
      [] sha = "c11" ->
           [has_author |-> TRUE, login |-> <<"r","e","n","o","v","a","t","e">>,
            name |-> <<"r","v">>, email |-> <<"r","@","x",".","i","o">>,
            date |-> [ord |-> 32, sec |-> 1800, off |-> 0],
            committer_date |-> [ord |-> 33, sec |-> 43200, off |-> 0],
            message |-> "m-c11", html_url |-> "u-c11"]
      [] sha = "c12" ->
           [has_author |-> TRUE, login |-> <<"a","l","i","c","e">>,
            name |-> <<"A","l","i","c","e">>, email |-> <<"a","l","@","x",".","i","o">>,
            date |-> [ord |-> 32, sec |-> 0, off |-> 0],
            committer_date |-> [ord |-> 33, sec |-> 43200, off |-> 0],
            message |-> "m-c12", html_url |-> "u-c12"]
      [] sha = "c13" ->
           [has_author |-> TRUE, login |-> <<"a","l","i","c","e">>,
            name |-> <<"A","l","i","c","e">>, email |-> <<"a","l","@","x",".","i","o">>,
            date |-> [ord |-> 32, sec |-> 43200, off |-> 0],
            committer_date |-> [ord |-> 32, sec |-> 43200, off |-> 0],
            message |-> "m-c13", html_url |-> "u-c13"]

Shas == {"c1", "c2", "c3", "c4", "c5", "c6", "c7", "c8", "c9", "c10", "c11", "c12", "c13"}

\* repo.get_branches() and, per branch, repo.get_commits(sha=branch, since, until).
Branches(repo) ==
    IF repo = RepoA
    THEN << [name |-> "main",    commits |-> <<"c1", "c2", "c5", "c9">>],
            [name |-> "release", commits |-> <<"c2", "c1", "c3", "c10", "c13">>] >>
    ELSE << [name |-> "main",    commits |-> <<"c4", "c1", "c6", "c12">>],
            [name |-> "dev",     commits |-> <<"c7", "c8", "c4", "c11">>] >>

BranchNames(repo) == {Branches(repo)[i].name : i \in 1..Len(Branches(repo))}

\* The branches of repo that list commit sha.
BranchesWith(repo, sha) ==
    {i \in 1..Len(Branches(repo)) : sha \in Range(Branches(repo)[i].commits)}

(***************************************************************************)
(* process_single_repo                                                     *)
(*                                                                         *)
(* What the API does during one invocation is its scenario:                *)
(*   [where |-> "none"]                         every call returns         *)
(*   [where |-> "guard" | "branches", kind]     check_rate_limit or        *)
(*                                              get_branches raises kind   *)
(*   [where |-> "commits", branch, at, kind]    the commit listing of the  *)
(*                                              branch raises kind after   *)
(*                                              yielding `at` commits      *)
(* kind is the exception class: "rate_limit" (RateLimitExceededException), *)
(* "github_api" (another GithubException) or "unexpected" (any other       *)
(* Exception, such as a transport error).                                  *)
(***************************************************************************)
Kinds == {"rate_limit", "github_api", "unexpected"}

\* PyGithub: class RateLimitExceededException(GithubException).
IsGithubException(kind) == kind \in {"rate_limit", "github_api"}

NoFault == [where |-> "none", kind |-> "none", branch |-> 0, at |-> 0]

Scenarios(repo) ==
    {NoFault}
    \cup {[where |-> w, kind |-> kd, branch |-> 0, at |-> 0] :
             w \in {"guard", "branches"}, kd \in Kinds}
    \cup UNION {{[where |-> "commits", kind |-> kd, branch |-> b, at |-> n] :
                     kd \in Kinds, n \in 0..(Len(Branches(repo)[b].commits) - 1)} :
                b \in 1..Len(Branches(repo))}

\* Lines 240-249: the record built for a commit.
commit_data(repo, sha) ==
    [sha           |-> sha,
     message       |-> Commit(sha).message,
     date          |-> isoformat(Commit(sha).date),
     repository    |-> repo,
     author_login  |-> Commit(sha).login,
     author_name   |-> Commit(sha).name,
     author_email  |-> Commit(sha).email,
     url           |-> Commit(sha).html_url]

\* repo_commits[username][sha] of the defaultdict(dict).
UserDict(rc, username) == IF DictHas(rc, username) THEN DictGet(rc, username) ELSE << >>

\* The traversal's state: repo_commits, the two counters, the exception that
\* escaped the branch loop (exc), and two history fields the code does not keep:
\* origin, the branch each kept record was built from, and skipped, the branches
\* whose listing raised and was skipped.
NewTraversal ==
    [rc |-> << >>, commit_count |-> 0, bot_count |-> 0, exc |-> "none",
     origin |-> {}, skipped |-> {}]

\* AddCommit without the test of line 239: a later branch replaces the record.
AddCommitOverwriting(st, repo, bname, sha) ==
    LET username == Commit(sha).login
    IN  [st EXCEPT
           !.rc = DictPut(st.rc, username,
                          DictPut(UserDict(st.rc, username), sha, commit_data(repo, sha))),
           !.commit_count = @ + 1,
           !.origin = {o \in @ : ~(o.login = username /\ o.sha = sha)}
                      \cup {[login |-> username, sha |-> sha, branch |-> bname]}]

\* Lines 239-252: record the commit unless its sha is already held for the user.
AddCommit(st, repo, bname, sha) ==
    LET username == Commit(sha).login
    IN  IF ~DictHas(UserDict(st.rc, username), sha)
        THEN [st EXCEPT
                !.rc = DictPut(st.rc, username,
                               DictPut(UserDict(st.rc, username), sha, commit_data(repo, sha))),
                !.commit_count = @ + 1,
                !.origin = @ \cup {[login |-> username, sha |-> sha, branch |-> bname]}]
        ELSE st

\* Lines 217-252: the body of the loop over one branch's commits.
VisitCommit(st, repo, bname, sha) ==
    IF ~Commit(sha).has_author THEN st
    ELSE IF is_bot_user(Commit(sha).login, Commit(sha).name, Commit(sha).email)
         THEN [st EXCEPT !.bot_count = @ + 1]
         ELSE AddCommit(st, repo, bname, sha)

\* The first n commits of a branch, visited in listing order.
RECURSIVE VisitCommits(_, _, _, _)
VisitCommits(st, repo, b, n) ==
    IF n = 0 THEN st
    ELSE VisitCommit(VisitCommits(st, repo, b, n - 1), repo,
                     Branches(repo)[b].name, Branches(repo)[b].commits[n])

\* BranchHandlerCatches for a handler of every exception.
BranchHandlerCatchesAll(kind) == kind \in Kinds

\* Lines 254-255: the handler of the try around one branch.
BranchHandlerCatches(kind) == IsGithubException(kind)

\* Lines 213-255: branches b..last in listing order.
RECURSIVE VisitBranches(_, _, _, _)
VisitBranches(st, repo, b, scen) ==
    IF b > Len(Branches(repo)) THEN st
    ELSE IF scen.where = "commits" /\ scen.branch = b
         THEN LET part == VisitCommits(st, repo, b, scen.at)
              IN  IF BranchHandlerCatches(scen.kind)
                  THEN VisitBranches([part EXCEPT !.skipped = @ \cup {Branches(repo)[b].name}],
                                     repo, b + 1, scen)
                  ELSE [part EXCEPT !.exc = scen.kind]
         ELSE VisitBranches(VisitCommits(st, repo, b, Len(Branches(repo)[b].commits)),
                            repo, b + 1, scen)

\* Lines 268-290: the error kind the outer handlers report for an exception.
ErrorOf(kind) ==
    CASE kind = "rate_limit" -> "rate_limit"
      [] kind = "github_api" -> "github_api"
      [] OTHER               -> "unexpected"

Failure(repo, kind) ==
    [success |-> FALSE, repo |-> repo, error |-> ErrorOf(kind), commits |-> << >>,
     commit_count |-> 0, bot_count |-> 0, origin |-> {}, skipped |-> {}]

\* The result process_single_repo returns under a scenario.  A failure result has
\* no 'commits' (here the empty dict) and a success result no 'error' (here "").
process_single_repo(repo, scen) ==
    IF scen.where \in {"guard", "branches"} THEN Failure(repo, scen.kind)
    ELSE LET st == VisitBranches(NewTraversal, repo, 1, scen)
         IN  IF st.exc # "none" THEN Failure(repo, st.exc)
             ELSE [success |-> TRUE, repo |-> repo, error |-> "", commits |-> st.rc,
                   commit_count |-> st.commit_count, bot_count |-> st.bot_count,
                   origin |-> st.origin, skipped |-> st.skipped]

(***************************************************************************)
(* The completion-marker cache                                             *)
(***************************************************************************)
S3_PREFIX == "github/commits"

\* Lines 159-161: f"{S3_PREFIX}/_cache/v1/dt={day_str}/repo={repo_name}.done"
_marker_key(day_str, repo_name) ==
    <<S3_PREFIX, "/_cache/v1/dt=">> \o day_str \o <<"/", "repo=">> \o repo_name \o <<".done">>

\* key.split("repo=", 1)[1]: what follows the first "repo=" (none: IndexError).
AfterFirstRepoEq(key) ==
    LET i == CHOOSE j \in 1..Len(key) :
                 key[j] = "repo=" /\ \A h \in 1..(j - 1) : key[h] # "repo="
    IN  SubSeq(key, i + 1, Len(key))

\* txt.rsplit(".done", 1)[0]: what precedes the last ".done" (all of it if none).
BeforeLastDone(txt) ==
    IF \E j \in 1..Len(txt) : txt[j] = ".done"
    THEN LET i == CHOOSE j \in 1..Len(txt) :
                      txt[j] = ".done" /\ \A h \in (j + 1)..Len(txt) : txt[h] # ".done"
         IN  SubSeq(txt, 1, i - 1)
    ELSE txt

\* Lines 163-177: the repository names with a marker under the day's prefix.
_list_processed_repos_for_day(keys, day_str) ==
    LET prefix == <<S3_PREFIX, "/_cache/v1/dt=">> \o day_str \o <<"/">>
        listed == {key \in keys : Len(key) >= Len(prefix)
                                  /\ SubSeq(key, 1, Len(prefix)) = prefix}
        named  == {key \in listed : \E j \in 1..Len(key) : key[j] = "repo="}
    IN  {BeforeLastDone(AfterFirstRepoEq(key)) : key \in named} \ {<< >>}

\* Lines 179-180
_build_day_to_processed_map(keys, days) ==
    [d \in Range(days) |-> _list_processed_repos_for_day(keys, d)]

\* _repo_fully_processed with any in place of all: one marked day suffices.
_repo_any_day_processed(day_to_processed, repo_name, days) ==
    \E i \in 1..Len(days) :
        repo_name \in (IF days[i] \in DOMAIN day_to_processed
                       THEN day_to_processed[days[i]] ELSE {})

\* Lines 182-183
_repo_fully_processed(day_to_processed, repo_name, days) ==
    \A i \in 1..Len(days) :
        repo_name \in (IF days[i] \in DOMAIN day_to_processed
                       THEN day_to_processed[days[i]] ELSE {})

\* Lines 185-187, with put_object raising at day number failAt (0: never): the
\* keys written before the exception.
_mark_repo_processed_for_days(repo_name, days, failAt) ==
    {_marker_key(days[i], repo_name) :
        i \in 1..(IF failAt = 0 THEN Len(days) ELSE failAt - 1)}

\* Lines 189-196
RECURSIVE DaysFrom(_, _)
DaysFrom(cur, last) ==
    IF cur <= last THEN <<strftime(cur)>> \o DaysFrom(cur + 1, last) ELSE << >>

_days_list(start_dt_utc, end_dt_utc) == DaysFrom(date_of(start_dt_utc), date_of(end_dt_utc))

(***************************************************************************)
(* check_rate_limit and validate_date_range                                *)
(***************************************************************************)
\* Python's None: an optional integer setting that is not set, an attribute that
\* an object does not have.
None == -1

\* Seconds added to the time left until the reset, line 115.
Margin == 10

\* object(): it has none of the attributes read.
NoAttrs == [has |-> FALSE, remaining |-> None, reset |-> None]

\* getattr(obj, name, default) for an attribute that holds a number when present.
getattr(value, default) == IF value = None THEN default ELSE value

\* Lines 99-129. rate_limit is what get_rate_limit returned: its attributes rate
\* and core (has: whether the attribute exists), each with remaining and reset
\* (None: missing). The result tells whether the call raised (rate_limit.rate
\* is evaluated before getattr can supply a default), the values of the locals
\* remaining and reset_time, and the seconds slept (0: no sleep).
check_rate_limit(rate_limit, min_remaining, now) ==
    IF ~rate_limit.rate.has
    THEN [raised |-> TRUE, remaining |-> None, reset_time |-> None, wait_time |-> 0]
    ELSE LET core == IF rate_limit.core.has THEN rate_limit.core ELSE NoAttrs
             fallback == rate_limit.rate.remaining = None
             remaining == IF fallback THEN getattr(core.remaining, 0)
                                      ELSE rate_limit.rate.remaining
             reset_time == IF fallback THEN getattr(core.reset, None)
                                       ELSE getattr(rate_limit.rate.reset, None)
             wait_time == IF remaining < min_remaining /\ reset_time # None
                          THEN reset_time - now + Margin
                          ELSE 0
         IN  [raised |-> FALSE, remaining |-> remaining, reset_time |-> reset_time,
              wait_time |-> IF wait_time > 0 THEN wait_time ELSE 0]

\* The largest (end - start).days that line 69 lets pass.
MaxRangeDays == 10

\* datetime + timedelta(seconds=s)
AddSeconds(dt, s) ==
    LET total == dt.ord * SecondsPerDay + dt.sec + s
    IN  [ord |-> total \div SecondsPerDay, sec |-> total % SecondsPerDay, off |-> dt.off]

\* (b - a).days for two datetimes of the same offset: the whole days of the
\* difference, rounded down.
DeltaDays(a, b) ==
    ((b.ord * SecondsPerDay + b.sec) - (a.ord * SecondsPerDay + a.sec)) \div SecondsPerDay

\* Lines 62-73, on two '%Y-%m-%d' texts of valid dates.
validate_date_range(start_text, end_text) ==
    LET start == [ord |-> strptime(start_text), sec |-> 0, off |-> 0]
        end == AddSeconds(AddSeconds([ord |-> strptime(end_text), sec |-> 0, off |-> 0],
                                     SecondsPerDay), -1)
    IN  IF DeltaDays(start, end) > MaxRangeDays
        THEN [raised |-> TRUE, start |-> start, end |-> end]
        ELSE [raised |-> FALSE, start |-> start, end |-> end]

(***************************************************************************)
(* Merging and uploading                                                   *)
(***************************************************************************)
\* MergeCommit without the test of lines 341 and 344: the later record replaces
\* the one held.
MergeCommitOverwriting(acc, username, sha, data) ==
    DictPut(acc, username, DictPut(UserDict(acc, username), sha, data))

\* Lines 341-342 (and 344-345, 381-384): keep the record already held for the sha.
MergeCommit(acc, username, sha, data) ==
    IF ~DictHas(UserDict(acc, username), sha)
    THEN DictPut(acc, username, DictPut(UserDict(acc, username), sha, data))
    ELSE acc

\* The first n entries of one user's commits dict, merged in dict order.
RECURSIVE MergeUser(_, _, _, _)
MergeUser(acc, username, commits, n) ==
    IF n = 0 THEN acc
    ELSE MergeCommit(MergeUser(acc, username, commits, n - 1),
                     username, commits[n].k, commits[n].v)

\* Lines 339-345: the first n users of a result's commits, merged in dict order.
RECURSIVE MergeResult(_, _, _)
MergeResult(acc, commits, n) ==
    IF n = 0 THEN acc
    ELSE MergeUser(MergeResult(acc, commits, n - 1),
                   commits[n].k, commits[n].v, Len(commits[n].v))

\* Lines 418-422: one user's records grouped by date_parser.parse(date).date().
RECURSIVE commits_by_date(_, _)
commits_by_date(commits, n) ==
    IF n = 0 THEN << >>
    ELSE LET sofar == commits_by_date(commits, n - 1)
             day   == date_of(date_parse(commits[n].v.date))
             held  == IF DictHas(sofar, day) THEN DictGet(sofar, day) ELSE << >>
         IN  DictPut(sofar, day, Append(held, commits[n].v))

\* Line 427: f"{S3_PREFIX}/{username}/{date_str}/commits.json"
s3_key(username, date_str) ==
    <<S3_PREFIX, "/">> \o username \o <<"/">> \o date_str \o <<"/commits.json">>

\* Lines 416-427: the (user, date) groups upload_to_s3 walks through, in order,
\* each with the key of its bucket object.
RECURSIVE UploadGroups(_, _)
UploadGroups(uc, n) ==
    IF n = 0 THEN << >>
    ELSE LET byDate == commits_by_date(uc[n].v, Len(uc[n].v))
         IN  UploadGroups(uc, n - 1)
             \o [i \in 1..Len(byDate) |->
                    [key |-> s3_key(uc[n].k, strftime(byDate[i].k)),
                     day_commits |-> byDate[i].v]]

\* Lines 433-435: {c['sha']: c for c in json.loads(body)} for the first n records.
RECURSIVE existing_commits(_, _)
existing_commits(body, n) ==
    IF n = 0 THEN << >>
    ELSE DictPut(existing_commits(body, n - 1), body[n].sha, body[n])

\* MergeExisting guarded as the in-memory merges are: the record found in the
\* bucket is kept.
MergeExistingKeeping(existing, commit) ==
    IF DictHas(existing, commit.sha) THEN existing ELSE DictPut(existing, commit.sha, commit)

\* Line 443: existing_commits[commit['sha']] = commit
MergeExisting(existing, commit) == DictPut(existing, commit.sha, commit)

\* Lines 442-443: the first n records of the group merged into the bucket's dict.
RECURSIVE MergeDay(_, _, _)
MergeDay(existing, day_commits, n) ==
    IF n = 0 THEN existing
    ELSE MergeExisting(MergeDay(existing, day_commits, n - 1), day_commits[n])

\* MergedBody without the merge: the group replaces what the bucket held.
ReplacedBody(body, day_commits) ==
    DictValues(MergeDay(<< >>, day_commits, Len(day_commits)))

\* Lines 429-446: the body written for a group, given the object read (<< >> when
\* the read answered NoSuchKey).
MergedBody(body, day_commits) ==
    DictValues(MergeDay(existing_commits(body, Len(body)), day_commits, Len(day_commits)))

\* get_object of a key: the body of the object, or << >> for NoSuchKey.
ReadBody(bk, key) == IF key \in DOMAIN bk THEN bk[key] ELSE << >>

\* How get_object ends on a key of the store: "" when it returns the object, else
\* the error code of the ClientError it raises.
get_object(bk, key) == IF key \in DOMAIN bk THEN "" ELSE "NoSuchKey"

\* How get_object ends when the store or the transport fails: a ClientError of
\* another code, or an exception that is no ClientError.
ReadFaults == {"AccessDenied", "EndpointConnectionError"}

\* ReadTolerated without the test of line 440: every failed read counts as a
\* missing object.
ReadToleratedAlways(code) == code # ""

\* Lines 438-441: the failed read that upload_to_s3 takes for a missing object.
ReadTolerated(code) == code \in {"NoSuchKey", "404", "NotFound"}

\* existing_commits' source after the read, lines 433-441.
BodyRead(bk, key, code) == IF code = "" THEN bk[key] ELSE << >>

\* put_object of a key.
PutBody(bk, key, body) ==
    [k \in DOMAIN bk \cup {key} |-> IF k = key THEN body ELSE bk[k]]

\* Lines 429-452 for one group when no call raises: read, merge, write.
UploadOne(bk, g) == PutBody(bk, g.key, MergedBody(ReadBody(bk, g.key), g.day_commits))

\* upload_to_s3 of the first n groups when no call raises.
RECURSIVE UploadAll(_, _, _)
UploadAll(bk, groups, n) ==
    IF n = 0 THEN bk ELSE UploadOne(UploadAll(bk, groups, n - 1), groups[n])

(***************************************************************************)
(* Bounds of the model                                                     *)
(***************************************************************************)
\* Runs of main per behaviour.
MaxRuns == 2

\* Calls (API or object store) that raise, per behaviour of one run.
MaxFaults == 2

\* Calls that raise, per behaviour of several runs.
MaxRunFaults == 1

\* Calls that raise, per behaviour of several runs of one repository each.
MaxCappedFaults == 2

(***************************************************************************)
(* The state                                                               *)
(***************************************************************************)
VARIABLES
    buckets,                 \* object store: bucket key -> the JSON array it holds
    markers,                 \* object store: the keys of the marker objects
    REPO_LIMIT,              \* configuration, fixed for a behaviour
    UPLOAD_BATCH_SIZE,
    MAX_WORKERS,
    FORCE_REPROCESS,         \* configuration of the current run
    phase,                   \* where the main thread is
    flush,                   \* which upload_to_s3 call is running
    upq,                     \* its groups still to upload
    day_to_processed,
    repos_to_process,
    future,                  \* repo -> [st, result] of the submitted task
    current,                 \* future_to_repo[future] of the result being retried
    user_commits,
    batch_user_commits,
    repos_since_last_upload,
    processed,
    failed_repos,
    run,                     \* runs started
    max_runs,                \* runs a behaviour may start
    faults,                  \* raising calls so far
    max_faults,              \* raising calls a behaviour may contain
    last_error,              \* the call whose exception ended the run ("" if none)
    calls,                   \* history: repo -> the invocations of process_single_repo in this run
    written,                 \* history: the marker keys put by this run
    uploads,                 \* history: upload_to_s3 calls of this run, by kind
    guarded,                 \* history: the repositories whose retry passed line 369
    last_merged,             \* history: the commits dict of the result merged last
    last_upload,             \* history: the group uploaded last and the body it found
    last_read,               \* history: the get_object made last, how it ended, what the store held
    history,                 \* history: one summary per run, started or finished
    guard,                   \* a call of check_rate_limit: its inputs, position and locals
    window,                  \* START_DATE and END_DATE, their validation and the days listed
    task                     \* a call of process_single_repo: its inputs and its result

vars == << buckets, markers, REPO_LIMIT, UPLOAD_BATCH_SIZE, MAX_WORKERS, FORCE_REPROCESS,
           phase, flush, upq, day_to_processed, repos_to_process, future, current,
           user_commits, batch_user_commits, repos_since_last_upload, processed,
           failed_repos, run, max_runs, faults, max_faults, last_error, calls, written,
           uploads, guarded, last_merged, last_upload, last_read, history, guard,
           window, task >>

ghosts == << guarded, last_merged, last_upload, last_read >>

config == << REPO_LIMIT, UPLOAD_BATCH_SIZE, MAX_WORKERS, max_runs, max_faults >>

store == << buckets, markers >>

units == << guard, window, task >>

RepoSet == Range(AllRepos)

\* Line 296
days == _days_list(start_date, end_date)

NoResult ==
    [success |-> FALSE, repo |-> << >>, error |-> "none", commits |-> << >>,
     commit_count |-> 0, bot_count |-> 0, origin |-> {}, skipped |-> {}]

\* The commit_ids a bucket body holds.
ShaSet(body) == {body[i].sha : i \in 1..Len(body)}

Dispatched == Range(repos_to_process)

NoUpload == [key |-> << >>, old |-> << >>, new |-> << >>]

NoRead == [key |-> << >>, code |-> "", had |-> FALSE, body |-> << >>]

\* What an earlier run over the window leaves in the store when every repository
\* is collected in listing order and no call raises.
\* (Each intermediate value is bound through a singleton set, which TLC evaluates
\* once.)
EarlierCommits ==
    CHOOSE uc \in {MergeResult(MergeResult(<< >>, a, Len(a)), b, Len(b)) :
                      a \in {process_single_repo(RepoA, NoFault).commits},
                      b \in {process_single_repo(RepoB, NoFault).commits}} : TRUE

EarlierBuckets ==
    CHOOSE bk \in {UploadAll(<< >>, groups, Len(groups)) :
                      groups \in {UploadGroups(uc, Len(uc)) : uc \in {EarlierCommits}}} : TRUE

EarlierMarkers ==
    UNION {_mark_repo_processed_for_days(r, days, 0) : r \in RepoSet}

\* No call of check_rate_limit is followed.
NoGuard ==
    [pc |-> "off", rate_limit |-> [rate |-> NoAttrs, core |-> NoAttrs], min_remaining |-> 0,
     now |-> 0, remaining |-> None, reset_time |-> None, wait_time |-> 0, slept |-> 0]

\* The window is START_DATE=2025-02-01, END_DATE=2025-02-02, validated.
NoWindow ==
    [pc |-> "off", START_DATE |-> strftime(Feb1), END_DATE |-> strftime(Feb2),
     start |-> start_date, end |-> end_date, days |-> << >>]

\* No call of process_single_repo is followed on its own.
NoTask == [pc |-> "off", repo |-> << >>, scen |-> NoFault, result |-> NoResult]

\* The part of Init that does not bound the behaviour: the store is empty or holds
\* what an earlier run left.
InitState ==
    /\ \/ buckets = << >> /\ markers = {}
       \/ buckets = EarlierBuckets /\ markers = EarlierMarkers
    /\ FORCE_REPROCESS = FALSE
    /\ phase = "idle"
    /\ flush = "none"
    /\ upq = << >>
    /\ day_to_processed = [d \in Range(days) |-> {}]
    /\ repos_to_process = << >>
    /\ future = [r \in RepoSet |-> [st |-> "none", result |-> NoResult]]
    /\ current = << >>
    /\ user_commits = << >>
    /\ batch_user_commits = << >>
    /\ repos_since_last_upload = 0
    /\ processed = 0
    /\ failed_repos = << >>
    /\ run = 0
    /\ faults = 0
    /\ last_error = ""
    /\ calls = [r \in RepoSet |-> << >>]
    /\ written = {}
    /\ uploads = << >>
    /\ guarded = {}
    /\ last_merged = << >>
    /\ last_upload = NoUpload
    /\ last_read = NoRead
    /\ history = << >>

\* One run of main, under every configuration.
Init ==
    /\ InitState
    /\ guard = NoGuard
    /\ window = NoWindow
    /\ task = NoTask
    /\ REPO_LIMIT \in {None, 1}
    /\ UPLOAD_BATCH_SIZE \in {None, 1, 2}
    /\ MAX_WORKERS \in {1, 2}
    /\ max_runs = 1
    /\ max_faults = MaxFaults

\* Successive runs of main over the same window and store.
InitRuns ==
    /\ InitState
    /\ guard = NoGuard
    /\ window = NoWindow
    /\ task = NoTask
    /\ \E cfg \in {<<None, None, 2>>, <<1, 1, 1>>} :
          /\ REPO_LIMIT = cfg[1]
          /\ UPLOAD_BATCH_SIZE = cfg[2]
          /\ MAX_WORKERS = cfg[3]
    /\ max_runs = MaxRuns
    /\ max_faults = MaxRunFaults

\* Successive runs of main over the same window and store with REPO_LIMIT=1: each
\* run dispatches one repository, and a collection can fail twice.
InitCapped ==
    /\ InitState
    /\ guard = NoGuard
    /\ window = NoWindow
    /\ task = NoTask
    /\ REPO_LIMIT = 1
    /\ UPLOAD_BATCH_SIZE \in {None, 1}
    /\ MAX_WORKERS = 1
    /\ max_runs = MaxRuns
    /\ max_faults = MaxCappedFaults

(***************************************************************************)
(* collect_commits: the dispatch list                                      *)
(***************************************************************************)
\* Line 300
InitialDayToProcessed(force, keys) ==
    IF force THEN [d \in Range(days) |-> {}] ELSE _build_day_to_processed_map(keys, days)

\* Eligible without the marker test: nothing is dispatched unless forced.
EligibleOnlyForced(force, dtp, repo_name) == force

\* Line 304: whether a repository is appended to repos_to_process.
Eligible(force, dtp, repo_name) ==
    force \/ ~_repo_fully_processed(dtp, repo_name, days)

\* EligibleRepos with the markers of the store honoured even when forced.
EligibleReposByMarkers(force, dtp) ==
    SelectSeq(AllRepos,
              LAMBDA r : ~_repo_fully_processed(_build_day_to_processed_map(markers, days),
                                                r, days))

\* Lines 302-305
EligibleRepos(force, dtp) == SelectSeq(AllRepos, LAMBDA r : Eligible(force, dtp, r))

\* ApplyRepoLimit with the cap taken on the listing before the marker filter: of
\* the first limit repositories listed, those that passed the filter.
ApplyRepoLimitBeforeFilter(repos, limit) ==
    IF limit # None /\ limit >= 0
    THEN SelectSeq(SubSeq(AllRepos, 1, IF limit < Len(AllRepos) THEN limit ELSE Len(AllRepos)),
                   LAMBDA r : r \in Range(repos))
    ELSE repos

\* Lines 306-307
ApplyRepoLimit(repos, limit) ==
    IF limit # None /\ limit >= 0
    THEN SubSeq(repos, 1, IF limit < Len(repos) THEN limit ELSE Len(repos))
    ELSE repos

\* The repositories with a marker object for every day of the window.
FullyMarked(keys) ==
    {r \in RepoSet : \A i \in 1..Len(days) : _marker_key(days[i], r) \in keys}

\* The repositories this run has collected on every branch: the last invocation
\* succeeded and skipped no branch.
CollectedCompletely ==
    {r \in RepoSet : /\ calls[r] # << >>
                     /\ calls[r][Len(calls[r])].success
                     /\ calls[r][Len(calls[r])].skipped = {}}

\* The summary of a run as it starts.
Started(force, rtp) ==
    [force     |-> force,
     premarked |-> FullyMarked(markers),
     dispatch  |-> Range(rtp),
     ending    |-> "running",
     failed    |-> {},
     retried   |-> {},
     complete  |-> {},
     ids       |-> << >>]

\* The summary of the run that ends now, in phase ending ("done" or "aborted").
Ended(ending) ==
    [history EXCEPT ![Len(history)] =
        [@ EXCEPT !.ending   = ending,
                  !.failed   = {failed_repos[i].repo : i \in 1..Len(failed_repos)},
                  !.retried  = {r \in RepoSet : Len(calls[r]) = 2},
                  !.complete = CollectedCompletely,
                  !.ids      = [k \in DOMAIN buckets |-> ShaSet(buckets[k])]]]

\* Abort with the exception caught and dropped: the run goes on.
AbortSwallowed(cause) ==
    /\ last_error' = cause
    /\ faults' = faults + 1
    /\ UNCHANGED << phase, history >>

\* An exception leaves main: the run ends with a non-zero exit.
Abort(cause) ==
    /\ phase' = "aborted"
    /\ last_error' = cause
    /\ faults' = faults + 1
    /\ history' = Ended("aborted")

\* main, lines 458-485, up to the submission of the tasks (lines 326-329).  The
\* calls made on the way (check_rate_limit at line 465, get_repositories at line
\* 294, the marker listing at line 300) are in no try: one of them raising ends
\* the run before anything is dispatched.
StartRun ==
    /\ phase \in {"idle", "done", "aborted"}
    /\ run < max_runs
    /\ \E force \in BOOLEAN :
         LET dtp == InitialDayToProcessed(force, markers)
             rtp == ApplyRepoLimit(EligibleRepos(force, dtp), REPO_LIMIT)
         IN  /\ FORCE_REPROCESS' = force
             /\ \/ /\ phase' = "collect"
                   /\ day_to_processed' = dtp
                   /\ repos_to_process' = rtp
                   /\ future' = [r \in RepoSet |->
                                   [st |-> IF r \in Range(rtp) THEN "queued" ELSE "none",
                                    result |-> NoResult]]
                   /\ history' = Append(history, Started(force, rtp))
                   /\ last_error' = ""
                   /\ UNCHANGED faults
                \/ /\ faults < max_faults
                   /\ phase' = "aborted"
                   /\ day_to_processed' = [d \in Range(days) |-> {}]
                   /\ repos_to_process' = << >>
                   /\ future' = [r \in RepoSet |-> [st |-> "none", result |-> NoResult]]
                   /\ history' = Append(history,
                                        [Started(force, << >>) EXCEPT !.ending = "aborted"])
                   /\ last_error' = "startup"
                   /\ faults' = faults + 1
    /\ run' = run + 1
    /\ flush' = "none"
    /\ upq' = << >>
    /\ current' = << >>
    /\ user_commits' = << >>
    /\ batch_user_commits' = << >>
    /\ repos_since_last_upload' = 0
    /\ processed' = 0
    /\ failed_repos' = << >>
    /\ calls' = [r \in RepoSet |-> << >>]
    /\ written' = {}
    /\ uploads' = << >>
    /\ guarded' = {}
    /\ last_merged' = << >>
    /\ last_upload' = NoUpload
    /\ last_read' = NoRead
    /\ UNCHANGED << store, config, units >>

Running == {r \in RepoSet : future[r].st = "running"}

InRun == phase \in {"collect", "retry_guard", "retry_run", "flush"}

\* A pool thread takes a submitted task.
WorkerStart(r) ==
    /\ InRun
    /\ future[r].st = "queued"
    /\ Cardinality(Running) < MAX_WORKERS
    /\ future' = [future EXCEPT ![r].st = "running"]
    /\ UNCHANGED << store, config, units, FORCE_REPROCESS, phase, flush, upq, day_to_processed,
                    repos_to_process, current, user_commits, batch_user_commits,
                    repos_since_last_upload, processed, failed_repos, run, faults,
                    last_error, calls, written, uploads, ghosts, history >>

\* One entry of calls: who ran process_single_repo and what it returned.
Call(thread, result) ==
    [by |-> thread, success |-> result.success, error |-> result.error,
     skipped |-> result.skipped]

\* WorkerFinish for a worker that merges what it collected into the run-wide
\* accumulation itself.
WorkerFinishMerging(r) ==
    /\ InRun
    /\ future[r].st = "running"
    /\ \E scen \in Scenarios(r) :
         /\ scen # NoFault => faults < max_faults
         /\ faults' = IF scen = NoFault THEN faults ELSE faults + 1
         /\ LET result == process_single_repo(r, scen)
            IN  /\ future' = [future EXCEPT ![r] = [st |-> "done", result |-> result]]
                /\ calls' = [calls EXCEPT ![r] = Append(@, Call("worker", result))]
                /\ user_commits' = MergeResult(user_commits, result.commits,
                                               Len(result.commits))
    /\ UNCHANGED << store, config, units, FORCE_REPROCESS, phase, flush, upq, day_to_processed,
                    repos_to_process, current, batch_user_commits,
                    repos_since_last_upload, processed, failed_repos, run,
                    last_error, written, uploads, ghosts, history >>

\* The pool thread runs process_single_repo to its return (lines 199-290).
WorkerFinish(r) ==
    /\ InRun
    /\ future[r].st = "running"
    /\ \E scen \in Scenarios(r) :
         /\ scen # NoFault => faults < max_faults
         /\ faults' = IF scen = NoFault THEN faults ELSE faults + 1
         /\ LET result == process_single_repo(r, scen)
            IN  /\ future' = [future EXCEPT ![r] = [st |-> "done", result |-> result]]
                /\ calls' = [calls EXCEPT ![r] = Append(@, Call("worker", result))]
    /\ UNCHANGED << store, config, units, FORCE_REPROCESS, phase, flush, upq, day_to_processed,
                    repos_to_process, current, user_commits, batch_user_commits,
                    repos_since_last_upload, processed, failed_repos, run,
                    last_error, written, uploads, ghosts, history >>

(***************************************************************************)
(* collect_commits: the loop over as_completed, on the main thread         *)
(***************************************************************************)
\* A Python int used as a condition.
Truthy(n) == n # None /\ n # 0

\* Line 357
BatchDue(batch_size, since_last) ==
    Truthy(batch_size) /\ batch_size > 0 /\ since_last >= batch_size

\* Line 404
FinalBatchDue(batch_size, since_last) == Truthy(batch_size) /\ since_last > 0

\* Lines 350-351 (388-389)
AddProcessed(dtp, repo_name) ==
    [d \in DOMAIN dtp \cup Range(days) |->
        (IF d \in DOMAIN dtp THEN dtp[d] ELSE {}) \cup
        (IF d \in Range(days) THEN {repo_name} ELSE {})]

\* Lines 348-353 (386-391): the markers are put day by day; put_object raising at
\* day number failAt (0: never) is caught and only logged.
MarkProcessed(repo_name, failAt) ==
    /\ failAt # 0 => faults < max_faults
    /\ markers' = markers \cup _mark_repo_processed_for_days(repo_name, days, failAt)
    /\ written' = written \cup _mark_repo_processed_for_days(repo_name, days, failAt)
    /\ day_to_processed' = IF failAt = 0 THEN AddProcessed(day_to_processed, repo_name)
                           ELSE day_to_processed

\* list.remove(x): without the first element equal to x (ValueError is caught).
ListRemove(list, x) ==
    IF \E i \in 1..Len(list) : list[i] = x
    THEN LET i == CHOOSE j \in 1..Len(list) :
                      list[j] = x /\ \A h \in 1..(j - 1) : list[h] # x
         IN  SubSeq(list, 1, i - 1) \o SubSeq(list, i + 1, Len(list))
    ELSE list

\* Lines 331-367: one iteration of the loop, up to the retry or the batch upload.
HandleResult(r) ==
    /\ phase = "collect"
    /\ future[r].st = "done"
    /\ future' = [future EXCEPT ![r].st = "handled"]
    /\ processed' = processed + 1
    /\ LET result == future[r].result
       IN  \/ /\ result.success
              /\ user_commits' = MergeResult(user_commits, result.commits, Len(result.commits))
              /\ batch_user_commits' =
                     MergeResult(batch_user_commits, result.commits, Len(result.commits))
              /\ \E failAt \in 0..Len(days) :
                    /\ MarkProcessed(result.repo, failAt)
                    /\ faults' = IF failAt = 0 THEN faults ELSE faults + 1
              /\ last_merged' = result.commits
              /\ repos_since_last_upload' = repos_since_last_upload + 1
              /\ IF BatchDue(UPLOAD_BATCH_SIZE, repos_since_last_upload + 1)
                 THEN /\ phase' = "flush"
                      /\ flush' = "batch"
                      /\ upq' = UploadGroups(batch_user_commits', Len(batch_user_commits'))
                      /\ uploads' = Append(uploads, "batch")
                 ELSE UNCHANGED << phase, flush, upq, uploads >>
              /\ UNCHANGED << failed_repos, current >>
           \/ /\ ~result.success
              /\ failed_repos' = Append(failed_repos, result)
              /\ IF result.error = "rate_limit"
                 THEN phase' = "retry_guard" /\ current' = r
                 ELSE UNCHANGED << phase, current >>
              /\ UNCHANGED << markers, written, day_to_processed, user_commits,
                              batch_user_commits, repos_since_last_upload, faults,
                              flush, upq, uploads, last_merged >>
    /\ UNCHANGED << buckets, config, units, FORCE_REPROCESS, repos_to_process, run,
                    last_error, calls, guarded, last_upload, last_read,
                    history >>

\* Line 369: check_rate_limit on the main thread; an exception of its API call is
\* not caught anywhere.
RetryGuard ==
    /\ phase = "retry_guard"
    /\ \/ /\ phase' = "retry_run"
          /\ guarded' = guarded \cup {current}
          /\ UNCHANGED << faults, last_error, history >>
       \/ /\ faults < max_faults
          /\ Abort("check_rate_limit")
          /\ UNCHANGED guarded
    /\ UNCHANGED << store, config, units, FORCE_REPROCESS, flush, upq, day_to_processed,
                    repos_to_process, future, current, user_commits, batch_user_commits,
                    repos_since_last_upload, processed, failed_repos, run,
                    calls, written, uploads, last_merged, last_upload, last_read >>

\* Lines 370-395: the inline retry and what follows it.
RetryRun ==
    /\ phase = "retry_run"
    /\ phase' = "collect"
    /\ \E scen \in Scenarios(current) :
         LET retry_result == process_single_repo(current, scen)
         IN  /\ scen # NoFault => faults < max_faults
             /\ calls' = [calls EXCEPT ![current] = Append(@, Call("main", retry_result))]
             /\ \/ /\ retry_result.success
                   /\ user_commits' =
                          MergeResult(user_commits, retry_result.commits,
                                      Len(retry_result.commits))
                   /\ batch_user_commits' =
                          MergeResult(batch_user_commits, retry_result.commits,
                                      Len(retry_result.commits))
                   /\ \E failAt \in 0..Len(days) :
                         /\ MarkProcessed(retry_result.repo, failAt)
                         /\ faults' = IF failAt = 0 THEN faults ELSE faults + 1
                   /\ failed_repos' = ListRemove(failed_repos, future[current].result)
                   /\ last_merged' = retry_result.commits
                \/ /\ ~retry_result.success
                   /\ faults' = faults + 1
                   /\ UNCHANGED << markers, written, day_to_processed, user_commits,
                                   batch_user_commits, failed_repos, last_merged >>
    /\ UNCHANGED << buckets, config, units, FORCE_REPROCESS, flush, upq, repos_to_process,
                    future, current, repos_since_last_upload, processed, run,
                    last_error, uploads, guarded, last_upload, last_read,
                    history >>

\* Lines 398-408 and main's lines 487-495: the loop is over; the remaining batch is
\* flushed, or collect_commits returns and main uploads user_commits.
EndLoop ==
    /\ phase = "collect"
    /\ \A r \in Dispatched : future[r].st = "handled"
    /\ phase' = "flush"
    /\ IF FinalBatchDue(UPLOAD_BATCH_SIZE, repos_since_last_upload)
       THEN /\ flush' = "final_batch"
            /\ upq' = UploadGroups(batch_user_commits, Len(batch_user_commits))
            /\ uploads' = Append(uploads, "final_batch")
       ELSE /\ flush' = "main"
            /\ upq' = UploadGroups(user_commits, Len(user_commits))
            /\ uploads' = Append(uploads, "main")
    /\ UNCHANGED << store, config, units, FORCE_REPROCESS, day_to_processed, repos_to_process,
                    future, current, user_commits, batch_user_commits,
                    repos_since_last_upload, processed, failed_repos, run, faults,
                    last_error, calls, written, ghosts, history >>

(***************************************************************************)
(* upload_to_s3                                                            *)
(***************************************************************************)
\* Lines 425-454: one (user, date) group: read, merge, write.  get_object raising
\* anything but not-found, and put_object raising, leave upload_to_s3 and main.
UploadGroup ==
    /\ phase = "flush"
    /\ upq # << >>
    /\ LET g == Head(upq)
       IN  \E code \in {get_object(buckets, g.key)}
                         \cup (IF faults < max_faults THEN ReadFaults ELSE {}) :
             LET raised == IF code \in ReadFaults THEN 1 ELSE 0
                 existing == BodyRead(buckets, g.key, code)
             IN  /\ last_read' = [key |-> g.key, code |-> code,
                                  had |-> g.key \in DOMAIN buckets,
                                  body |-> ReadBody(buckets, g.key)]
                 /\ IF code = "" \/ ReadTolerated(code)
                    THEN \/ /\ buckets' = PutBody(buckets, g.key,
                                                  MergedBody(existing, g.day_commits))
                            /\ upq' = Tail(upq)
                            /\ last_upload' = [key |-> g.key, old |-> existing,
                                               new |-> g.day_commits]
                            /\ faults' = faults + raised
                            /\ UNCHANGED << phase, last_error, history >>
                         \/ /\ faults + raised < max_faults
                            /\ Abort("put_object")
                            /\ UNCHANGED << buckets, upq, last_upload >>
                    ELSE /\ Abort("get_object")
                         /\ UNCHANGED << buckets, upq, last_upload >>
    /\ UNCHANGED << markers, config, units, FORCE_REPROCESS, flush, day_to_processed,
                    repos_to_process, future, current, user_commits, batch_user_commits,
                    repos_since_last_upload, processed, failed_repos, run,
                    calls, written, uploads, guarded, last_merged >>

\* upload_to_s3 returns: to the loop (lines 360-361), to the end of
\* collect_commits and main's upload (lines 406-408, 495), or to the end of main
\* (lines 497-502), whose last check_rate_limit may raise.
UploadDone ==
    /\ phase = "flush"
    /\ upq = << >>
    /\ \/ /\ flush = "batch"
          /\ phase' = "collect"
          /\ flush' = "none"
          /\ batch_user_commits' = << >>
          /\ repos_since_last_upload' = 0
          /\ UNCHANGED << upq, uploads, faults, last_error, history >>
       \/ /\ flush = "final_batch"
          /\ flush' = "main"
          /\ upq' = UploadGroups(user_commits, Len(user_commits))
          /\ uploads' = Append(uploads, "main")
          /\ UNCHANGED << phase, batch_user_commits, repos_since_last_upload,
                          faults, last_error, history >>
       \/ /\ flush = "main"
          /\ \/ /\ phase' = "done"
                /\ history' = Ended("done")
                /\ UNCHANGED << faults, last_error >>
             \/ /\ faults < max_faults
                /\ Abort("check_rate_limit")
          /\ UNCHANGED << flush, upq, uploads, batch_user_commits, repos_since_last_upload >>
    /\ UNCHANGED << store, config, units, FORCE_REPROCESS, day_to_processed, repos_to_process,
                    future, current, user_commits, processed, failed_repos, run,
                    calls, written, ghosts >>

Next ==
    \/ StartRun
    \/ \E r \in RepoSet : WorkerStart(r)
    \/ \E r \in RepoSet : WorkerFinish(r)
    \/ \E r \in RepoSet : HandleResult(r)
    \/ RetryGuard
    \/ RetryRun
    \/ EndLoop
    \/ UploadGroup
    \/ UploadDone

Spec == Init /\ [][Next]_vars

SpecRuns == InitRuns /\ [][Next]_vars

SpecCapped == InitCapped /\ [][Next]_vars

(***************************************************************************)
(* One call of check_rate_limit                                            *)
(***************************************************************************)
\* What the call leaves alone: the run of main.
main_vars ==
    << store, config, ghosts, FORCE_REPROCESS, phase, flush, upq, day_to_processed,
       repos_to_process, future, current, user_commits, batch_user_commits,
       repos_since_last_upload, processed, failed_repos, run, faults, last_error,
       calls, written, uploads, history >>

\* The run of main is not started.
InitNoRun ==
    /\ InitState
    /\ buckets = << >>
    /\ REPO_LIMIT = None
    /\ UPLOAD_BATCH_SIZE = None
    /\ MAX_WORKERS = 1
    /\ max_runs = 0
    /\ max_faults = 0

\* What get_rate_limit may return under rate or core: nothing, or an object with
\* or without remaining and reset. The quota is exhausted, low for the default
\* threshold only, or ample; the reset is past by more than the margin, past by
\* less, or ahead.
RateAttrs ==
    {NoAttrs} \cup [has : {TRUE}, remaining : {None, 0, 60, 5000}, reset : {None, 50, 95, 160}]

\* A call of check_rate_limit with the thresholds of lines 206 and 99, at second
\* 100 of the clock.
InitGuard ==
    /\ InitNoRun
    /\ window = NoWindow
    /\ task = NoTask
    /\ \E rate \in RateAttrs, core \in RateAttrs, min_remaining \in {50, 100} :
          guard = [NoGuard EXCEPT !.pc = "called",
                                  !.rate_limit = [rate |-> rate, core |-> core],
                                  !.min_remaining = min_remaining,
                                  !.now = 100]

\* Lines 101-117: the probe is read and the call raises, returns or goes to sleep.
GuardCall ==
    /\ guard.pc = "called"
    /\ LET out == check_rate_limit(guard.rate_limit, guard.min_remaining, guard.now)
       IN  guard' = [guard EXCEPT !.pc = IF out.raised THEN "raised"
                                         ELSE IF out.wait_time > 0 THEN "sleeping"
                                         ELSE "returned",
                                  !.remaining = out.remaining,
                                  !.reset_time = out.reset_time,
                                  !.wait_time = out.wait_time]
    /\ UNCHANGED << main_vars, window, task >>

\* Lines 118-128: the sleep ends, the quota is read again and printed.
GuardWake ==
    /\ guard.pc = "sleeping"
    /\ guard' = [guard EXCEPT !.pc = "returned",
                              !.now = @ + guard.wait_time,
                              !.slept = guard.wait_time]
    /\ UNCHANGED << main_vars, window, task >>

NextGuard == GuardCall \/ GuardWake

SpecGuard == InitGuard /\ [][NextGuard]_vars

(***************************************************************************)
(* The window: validate_date_range, then _days_list                        *)
(***************************************************************************)
\* The dates START_DATE and END_DATE are drawn from: 2025-01-28 to 2025-02-11.
WindowDates == 28..42

InitWindow ==
    /\ InitNoRun
    /\ guard = NoGuard
    /\ task = NoTask
    /\ \E s \in WindowDates, e \in WindowDates :
          window = [NoWindow EXCEPT !.pc = "given",
                                    !.START_DATE = strftime(s),
                                    !.END_DATE = strftime(e)]

\* Line 458
ValidateDateRange ==
    /\ window.pc = "given"
    /\ LET out == validate_date_range(window.START_DATE, window.END_DATE)
       IN  window' = [window EXCEPT !.pc = IF out.raised THEN "rejected" ELSE "accepted",
                                    !.start = out.start,
                                    !.end = out.end]
    /\ UNCHANGED << main_vars, guard, task >>

\* Line 296
ListDays ==
    /\ window.pc = "accepted"
    /\ window' = [window EXCEPT !.pc = "listed",
                                !.days = _days_list(window.start, window.end)]
    /\ UNCHANGED << main_vars, guard, task >>

NextWindow == ValidateDateRange \/ ListDays

SpecWindow == InitWindow /\ [][NextWindow]_vars

(***************************************************************************)
(* One call of process_single_repo                                         *)
(***************************************************************************)
\* A repository of the listing is collected while no call raises, or while one
\* of its API calls raises an exception of one of the three kinds.
InitTask ==
    /\ InitNoRun
    /\ guard = NoGuard
    /\ window = NoWindow
    /\ \E repo \in RepoSet : \E scen \in Scenarios(repo) :
          task = [NoTask EXCEPT !.pc = "called", !.repo = repo, !.scen = scen]

\* Lines 199-290
RunTask ==
    /\ task.pc = "called"
    /\ task' = [task EXCEPT !.pc = "returned",
                            !.result = process_single_repo(task.repo, task.scen)]
    /\ UNCHANGED << main_vars, guard, window >>

NextTask == RunTask

SpecTask == InitTask /\ [][NextTask]_vars

(***************************************************************************)
(* Properties                                                              *)
(***************************************************************************)
\* The results the pool has returned in this run.
Returned == {r \in RepoSet : future[r].st \in {"done", "handled"}}

\* The results process_single_repo has returned: to the pool in this run, and to
\* the call followed on its own.
Results ==
    {future[r].result : r \in Returned}
        \cup (IF task.pc = "returned" THEN {task.result} ELSE {})

\* The positions <<user index, entry index>> of a commits dict that hold a sha.
Entries(commits, sha) ==
    UNION {{<<i, j>> : j \in {h \in 1..Len(commits[i].v) : commits[i].v[h].k = sha}} :
           i \in 1..Len(commits)}

\* The commits the collector keeps: with a resolvable author that is no bot.
Kept(sha) ==
    /\ Commit(sha).has_author
    /\ ~is_bot_user(Commit(sha).login, Commit(sha).name, Commit(sha).email)

\* The shas listed by two or more branches of a repository.
Shared(repo) == {sha \in Shas : Cardinality(BranchesWith(repo, sha)) >= 2}

BranchIndex(repo, bname) ==
    CHOOSE i \in 1..Len(Branches(repo)) : Branches(repo)[i].name = bname

\* The branch a held record was built from.
OriginOf(result, pos) ==
    {o.branch : o \in {x \in result.origin :
                          /\ x.login = result.commits[pos[1]].k
                          /\ x.sha = result.commits[pos[1]].v[pos[2]].k}}

\* Every branch listing the sha before branch bname was skipped by the handler of
\* line 254, so bname is the first branch on which the traversal built a record.
FirstEncounter(repo, result, sha, bname) ==
    \A b \in BranchesWith(repo, sha) :
        b < BranchIndex(repo, bname) => Branches(repo)[b].name \in result.skipped

\* C1 as stated: for every returned traversal and every commit_id on two or more
\* branches of the repository, the returned map holds exactly one record for it,
\* built from the first branch on which the commit was encountered.
C1_OneRecordPerSharedCommit ==
    \A res \in Results :
        res.success =>
            \A sha \in Shared(res.repo) :
                /\ Cardinality(Entries(res.commits, sha)) = 1
                /\ \A pos \in Entries(res.commits, sha) :
                       \A bname \in OriginOf(res, pos) :
                           FirstEncounter(res.repo, res, sha, bname)

\* C1 amended: for every returned traversal and every commit_id on two or more
\* branches, the returned map holds at most one record for it; none when the
\* commit has no resolvable author or is bot-classified; exactly one when it is
\* kept and some branch listing it was not skipped; and a held record was built
\* from the first branch on which the commit was encountered.
C1_AtMostOneRecordFirstBranch ==
    \A res \in Results :
        res.success =>
            \A sha \in Shared(res.repo) :
                LET held == Entries(res.commits, sha)
                IN  /\ Cardinality(held) <= 1
                    /\ ~Kept(sha) => held = {}
                    /\ ( Kept(sha)
                         /\ \E b \in BranchesWith(res.repo, sha) :
                               Branches(res.repo)[b].name \notin res.skipped )
                       => Cardinality(held) = 1
                    /\ \A pos \in held :
                          /\ Cardinality(OriginOf(res, pos)) = 1
                          /\ \A bname \in OriginOf(res, pos) :
                                FirstEncounter(res.repo, res, sha, bname)

\* A traversal of svc-api with no failing call returned c1, listed by main and by
\* release, once, built from main.
C1_Witness ==
    \E res \in Results :
        /\ res.repo = RepoA
        /\ res.success
        /\ res.skipped = {}
        /\ "c1" \in Shared(RepoA)
        /\ Cardinality(Entries(res.commits, "c1")) = 1
        /\ [login |-> Commit("c1").login, sha |-> "c1", branch |-> "main"] \in res.origin

\* The summary of the run started last.
ThisRun == history[Len(history)]

\* The days of the window for which the store holds a marker of the repository.
MarkedDays(repo_name) ==
    {i \in 1..Len(days) : _marker_key(days[i], repo_name) \in markers}

\* REPO_LIMIT cut the dispatch list.
Capped == REPO_LIMIT # None /\ Len(repos_to_process) = REPO_LIMIT

\* C2: in a run with force-reprocess false, a repository with a marker in the
\* store for every day of the window is not in the dispatch list, and a repository
\* lacking the marker of at least one day (also when it has those of other days)
\* is eligible: it is in the dispatch list unless REPO_LIMIT cut the list.  (Read
\* in a run that built its dispatch list, while it has put no marker, so that the
\* store is the one it started on.)
C2_DispatchIffNotFullyMarked ==
    (history # << >> /\ last_error # "startup" /\ ~FORCE_REPROCESS /\ written = {}) =>
        \A r \in RepoSet :
            /\ MarkedDays(r) = 1..Len(days) => r \notin Dispatched
            /\ MarkedDays(r) # 1..Len(days) => (r \in Dispatched \/ Capped)
            /\ (r \in ThisRun.premarked) = (MarkedDays(r) = 1..Len(days))

\* A second run without force found svc-api marked for both days and left it out,
\* and found lib.done marked for the first day only and dispatched it.
C2_Witness ==
    /\ run = 2
    /\ ~FORCE_REPROCESS
    /\ written = {}
    /\ MarkedDays(RepoA) = 1..Len(days)
    /\ RepoA \notin Dispatched
    /\ MarkedDays(RepoB) = {1}
    /\ RepoB \in Dispatched

\* The marker keys of a repository that this run has put.
WrittenFor(repo_name) ==
    {_marker_key(days[i], repo_name) : i \in 1..Len(days)} \cap written

\* The repositories of which an invocation returned success although the commit
\* listing of a branch raised and the branch was skipped (lines 254-255).
PartiallyCollected ==
    {r \in RepoSet : \E i \in 1..Len(calls[r]) :
                        calls[r][i].success /\ calls[r][i].skipped # {}}

\* C3: in every run, no marker is written for a repository whose collection was
\* partially failed, i.e. where the commit listing of at least one of its branches
\* failed during the traversal.
C3_NoMarkerForPartialCollection ==
    \A r \in PartiallyCollected : WrittenFor(r) = {}

\* The repositories whose collection has ended in failure in this run so far.
FailedNow == {failed_repos[i].repo : i \in 1..Len(failed_repos)}

\* C4 as stated: a repository whose collection ends in failure in a run is never
\* given a marker by that run, and the next run over the window with
\* force-reprocess false dispatches it again (a run that gets to build its
\* dispatch list has it in the list).
C4_FailedRepoDispatchedAgain ==
    /\ \A r \in FailedNow : WrittenFor(r) = {}
    /\ (Len(history) = 2 /\ ~history[2].force /\ last_error # "startup") =>
           \A r \in history[1].failed : r \in history[2].dispatch

\* C4 amended: a repository whose collection ends in failure in a run is never
\* given a marker by that run, and the next run over the window with
\* force-reprocess false (and the same REPO_LIMIT) dispatches it again unless the
\* store already held its marker for every day of the window before the failing
\* run started, in which case that run leaves it out.
C4_FailedRepoDispatchedUnlessPremarked ==
    /\ \A r \in FailedNow : WrittenFor(r) = {}
    /\ (Len(history) = 2 /\ ~history[2].force /\ last_error # "startup") =>
           \A r \in history[1].failed :
               (r \in history[2].dispatch) = (r \notin history[1].premarked)

\* The first run left svc-api failed after a quota failure and a failed retry, with
\* no marker of it in the store, and the second run, not forced, dispatched it.
C4_Witness ==
    /\ Len(history) = 2
    /\ ~history[2].force
    /\ written = {}
    /\ RepoA \in history[1].failed \cap history[1].retried
    /\ RepoA \notin history[1].premarked
    /\ MarkedDays(RepoA) = {}
    /\ RepoA \in history[2].dispatch

\* What holds of the retry in every run: at most two invocations per repository,
\* the first on a pool thread; a second one only after a first result of kind
\* rate_limit, on the orchestrating thread and after the check_rate_limit of line
\* 369 returned; none after a first result of another kind, and none after the
\* second.  A second invocation is missing after a rate_limit result only where
\* that check_rate_limit raised and ended the run.
RetryDiscipline ==
    \A r \in RepoSet :
        LET n == Len(calls[r])
        IN  /\ n <= 2
            /\ n >= 1 => calls[r][1].by = "worker"
            /\ n = 2 => /\ ~calls[r][1].success
                        /\ calls[r][1].error = "rate_limit"
                        /\ calls[r][2].by = "main"
                        /\ r \in guarded
            /\ (n >= 1 /\ calls[r][1].error # "rate_limit") => n = 1
            /\ ( n >= 1
                 /\ calls[r][1].error = "rate_limit"
                 /\ future[r].st = "handled"
                 /\ ~(phase \in {"retry_guard", "retry_run"} /\ current = r)
                 /\ ~(phase = "aborted" /\ last_error = "check_rate_limit"
                      /\ current = r /\ r \notin guarded) )
               => n = 2
            /\ r \in guarded => (n = 2 \/ (phase = "retry_run" /\ current = r))

\* C5: in one run process_single_repo is invoked at most twice for a repository;
\* the second invocation happens exactly when the first result has error kind
\* rate_limit (once the orchestrator has handled that result and is past its
\* retry, the second invocation has been made), on the orchestrating thread and
\* after a check_rate_limit call; a failed second invocation is final; a first
\* result of kind github_api or unexpected is never retried.
C5_SecondInvocationIffRateLimit ==
    \A r \in RepoSet :
        LET n == Len(calls[r])
        IN  /\ n <= 2
            /\ n = 2 => /\ calls[r][1].error = "rate_limit"
                        /\ calls[r][2].by = "main"
                        /\ r \in guarded
            /\ (n >= 1 /\ calls[r][1].error # "rate_limit") => n = 1
            /\ ( n >= 1
                 /\ calls[r][1].error = "rate_limit"
                 /\ future[r].st = "handled"
                 /\ ~(phase \in {"retry_guard", "retry_run"} /\ current = r) )
               => n = 2

\* The positions of a bucket body holding a commit_id.
At(body, sha) == {i \in 1..Len(body) : body[i].sha = sha}

\* C6: after upload_to_s3 has processed an (author, day) group, the bucket object
\* holds exactly one record per commit_id, its commit_ids are those of the object
\* it found together with those of the group (none of the former is lost), and a
\* commit_id of the group is held with the group's record.
C6_UploadMergesByCommitId ==
    last_upload # NoUpload =>
        LET body == buckets[last_upload.key]
            old  == last_upload.old
            new  == last_upload.new
        IN  /\ \A sha \in ShaSet(body) : Cardinality(At(body, sha)) = 1
            /\ ShaSet(body) = ShaSet(old) \cup ShaSet(new)
            /\ \A i \in 1..Len(new) : \A j \in At(body, new[i].sha) : body[j] = new[i]
            /\ \A i \in 1..Len(old) :
                  old[i].sha \notin ShaSet(new) =>
                      \A j \in At(body, old[i].sha) : body[j] = old[i]

\* An upload found a bucket holding c1 as collected from svc-api and another
\* commit, and merged into it a group holding c1 as collected from lib.done and a
\* third commit.
C6_Witness ==
    /\ last_upload # NoUpload
    /\ \E i \in 1..Len(last_upload.old) : \E j \in 1..Len(last_upload.new) :
          /\ last_upload.old[i].sha = "c1"
          /\ last_upload.new[j].sha = "c1"
          /\ last_upload.old[i].repository = RepoA
          /\ last_upload.new[j].repository = RepoB
    /\ ShaSet(last_upload.old) \ ShaSet(last_upload.new) # {}
    /\ ShaSet(last_upload.new) \ ShaSet(last_upload.old) # {}
    /\ Len(buckets[last_upload.key]) = 3

\* Two runs of the pipeline over the window have both reached their successful end.
TwoRunsDone ==
    /\ Len(history) = 2
    /\ history[1].ending = "done"
    /\ history[2].ending = "done"

\* Every bucket of ids1 is a bucket of ids2 holding at least the same commit_ids.
IdsIncluded(ids1, ids2) ==
    \A k \in DOMAIN ids1 : k \in DOMAIN ids2 /\ ids1[k] \subseteq ids2[k]

\* C7 as stated: after two complete runs over the same window and upstream data,
\* forced or not, every bucket holds after the second run the set of commit_ids it
\* held after the first.
C7_SecondRunLeavesIdsUnchanged ==
    TwoRunsDone => history[2].ids = history[1].ids

\* C7 amended: after two complete runs over the same window and upstream data,
\* forced or not, every bucket of the first run still exists and holds at least
\* the commit_ids it held after the first run; the sets are equal whenever every
\* repository the second run dispatches was collected completely by the first
\* one (its last invocation succeeded and skipped no branch).
C7_SecondRunAddsOnlyUncollected ==
    TwoRunsDone =>
        /\ IdsIncluded(history[1].ids, history[2].ids)
        /\ history[2].dispatch \subseteq history[1].complete
               => history[2].ids = history[1].ids

\* On an empty store a first run collected both repositories completely, and a
\* second, forced run collected both again and left every bucket's ids as they
\* were.
C7_Witness ==
    /\ TwoRunsDone
    /\ history[1].premarked = {}
    /\ history[1].complete = RepoSet
    /\ history[2].force
    /\ history[2].dispatch = RepoSet
    /\ history[2].complete = RepoSet
    /\ DOMAIN history[1].ids # {}
    /\ history[2].ids = history[1].ids

\* The (author, commit_id) pairs an accumulation holds, and the record of a pair.
Pairs(acc) ==
    UNION {{<<acc[i].k, acc[i].v[j].k>> : j \in 1..Len(acc[i].v)} : i \in 1..Len(acc)}

Rec(acc, p) == DictGet(DictGet(acc, p[1]), p[2])

\* C8 as stated: when a completed result is merged, on the first-attempt or the
\* retry path, the run-wide accumulation and the pending batch hold for each of
\* its (author, commit_id) pairs the record of that result: one arriving later
\* replaces the one held (last write wins).
C8_LaterRecordReplaces ==
    \A p \in Pairs(last_merged) :
        /\ p \in Pairs(user_commits) => Rec(user_commits, p) = Rec(last_merged, p)
        /\ p \in Pairs(batch_user_commits) =>
               Rec(batch_user_commits, p) = Rec(last_merged, p)

\* C8 amended: when a completed result is merged, on the first-attempt or the
\* retry path, each of its (author, commit_id) pairs is held afterwards by the
\* run-wide accumulation and by the pending batch; a pair already held keeps the
\* record it had (first write wins) and a new pair gets the result's record.  The
\* run-wide accumulation never changes a held record during a run, and the
\* pending batch only by being emptied after a batch upload.
C8_EarlierRecordIsKept ==
    [][ run' = run =>
          /\ \A p \in Pairs(user_commits) :
                p \in Pairs(user_commits') /\ Rec(user_commits', p) = Rec(user_commits, p)
          /\ batch_user_commits' # << >> =>
                \A p \in Pairs(batch_user_commits) :
                    /\ p \in Pairs(batch_user_commits')
                    /\ Rec(batch_user_commits', p) = Rec(batch_user_commits, p)
          /\ last_merged' # last_merged =>
                \A p \in Pairs(last_merged') :
                    /\ p \in Pairs(user_commits') \cap Pairs(batch_user_commits')
                    /\ p \notin Pairs(user_commits) =>
                           Rec(user_commits', p) = Rec(last_merged', p)
                    /\ p \notin Pairs(batch_user_commits) =>
                           Rec(batch_user_commits', p) = Rec(last_merged', p) ]_vars

\* svc-api was merged first; lib.done, collected by the inline retry, was merged
\* after it with its own record of alice's c1, and both accumulations still hold
\* the record collected from svc-api.
C8_Witness ==
    LET p == <<Commit("c1").login, "c1">>
    IN  /\ Len(calls[RepoB]) = 2
        /\ p \in Pairs(last_merged)
        /\ Rec(last_merged, p).repository = RepoB
        /\ p \in Pairs(user_commits) \cap Pairs(batch_user_commits)
        /\ Rec(user_commits, p).repository = RepoA
        /\ Rec(batch_user_commits, p).repository = RepoA

\* The upstream commits that the rules of lines 75-97 classify as bot-authored:
\* c2 and c10 by a login containing [bot], c8 (Snyk-Bot) and c11 (renovate) by a
\* login of the known-bot list, c5 by a display name containing bot (Abbott), c6
\* by an email containing noreply and c9 by an email containing bot (robot@x.io).
BotShas == {"c2", "c5", "c6", "c8", "c9", "c10", "c11"}

\* The logins all of whose upstream commits are bot-classified.
BotOnlyLogins ==
    {Commit(sha).login : sha \in BotShas}
        \ {Commit(sha).login : sha \in {x \in Shas \ BotShas : Commit(x).has_author}}

\* The commit_ids a returned map holds.
MapShas(commits) == {p[2] : p \in Pairs(commits)}

\* C9: a commit that is_bot_user classifies as bot-authored is in no map returned
\* by process_single_repo and in no bucket the store holds, and no bucket object
\* exists for an author all of whose commits are bot-classified.
C9_NoBotCommitCollected ==
    /\ \A r \in Returned : MapShas(future[r].result.commits) \cap BotShas = {}
    /\ \A r \in Returned : \A i \in 1..Len(future[r].result.commits) :
           future[r].result.commits[i].k \notin BotOnlyLogins
    /\ \A k \in DOMAIN buckets : ShaSet(buckets[k]) \cap BotShas = {}
    /\ \A k \in DOMAIN buckets : \A login \in BotOnlyLogins :
           \A d \in {Feb1 - 1, Feb1, Feb2, Feb2 + 1} : k # s3_key(login, strftime(d))
    /\ MapShas(user_commits) \cap BotShas = {}

\* On an empty store a run traversed both repositories in full, counted their bot
\* commits, and uploaded the others to the end.
C9_Witness ==
    /\ phase = "done"
    /\ history[1].premarked = {}
    /\ \A r \in RepoSet : /\ future[r].st = "handled"
                          /\ future[r].result.success
                          /\ future[r].result.skipped = {}
                          /\ future[r].result.bot_count >= 3
    /\ DOMAIN buckets # {}
    /\ \E k \in DOMAIN buckets : "c13" \in ShaSet(buckets[k])

\* A record is stored under bucket key k: the key of its author and of day ord.
FiledUnder(k, record, ord) == k = s3_key(record.author_login, strftime(ord))

\* What the code does: the day of a bucket key is the calendar date of the author
\* timestamp in the timestamp's own offset (lines 243 and 421, no conversion).
BucketDayIsOwnOffsetDate ==
    \A k \in DOMAIN buckets : \A i \in 1..Len(buckets[k]) :
        FiledUnder(k, buckets[k][i], Commit(buckets[k][i].sha).date.ord)

\* C10: the day of the bucket key under which upload_to_s3 persists a record is
\* the calendar date of the commit's author timestamp after conversion to UTC,
\* for every offset the timestamp carries, and not the committer's date; a record
\* authored at 2025-02-01T23:59:59Z (c1) is under 2025-02-01 and one authored at
\* 2025-02-02T00:00:00Z (c4) under 2025-02-02.
C10_BucketDayIsUtcAuthorDate ==
    \A i \in 1..Len(last_upload.new) :
        FiledUnder(last_upload.key, last_upload.new[i],
                   UtcDate(Commit(last_upload.new[i].sha).date))

\* The repositories whose records this run has merged: handled, and the last
\* invocation succeeded (on the first attempt or on the retry).
Merged ==
    {r \in RepoSet : /\ future[r].st = "handled"
                     /\ calls[r] # << >>
                     /\ calls[r][Len(calls[r])].success
                     /\ ~(phase = "retry_run" /\ current = r)}

\* The upload_to_s3 calls of one kind this run has started.
UploadsOf(kind) == {i \in 1..Len(uploads) : uploads[i] = kind}

\* C11: with a batch size N configured, the pending batch is flushed and cleared
\* after every N completed repositories, one that succeeded on its retry included
\* (between two iterations of the loop fewer than N merged repositories are
\* pending), and records remaining in the pending batch when all work has
\* completed are flushed exactly once by collect_commits before it returns.
C11_BatchFlushedEveryN ==
    (Truthy(UPLOAD_BATCH_SIZE) /\ UPLOAD_BATCH_SIZE > 0) =>
        /\ phase = "collect" =>
               Cardinality(Merged) - UPLOAD_BATCH_SIZE * Cardinality(UploadsOf("batch"))
                   < UPLOAD_BATCH_SIZE
        /\ Cardinality(UploadsOf("final_batch")) <= 1
        /\ (UploadsOf("main") # {} /\ batch_user_commits # << >>) =>
               Cardinality(UploadsOf("final_batch")) = 1

\* What the code does: repos_since_last_upload counts the repositories merged on
\* their first attempt only (line 356; the retry path of lines 377-395 neither
\* counts nor tests the batch), and the final flush of line 404 is decided by that
\* counter, not by what the pending batch holds.
BatchCountsFirstAttempts ==
    (Truthy(UPLOAD_BATCH_SIZE) /\ UPLOAD_BATCH_SIZE > 0) =>
        LET first == {r \in Merged : calls[r][1].success}
        IN  /\ phase = "collect" =>
                   /\ repos_since_last_upload
                          = Cardinality(first)
                              - UPLOAD_BATCH_SIZE * Cardinality(UploadsOf("batch"))
                   /\ repos_since_last_upload < UPLOAD_BATCH_SIZE
            /\ Cardinality(UploadsOf("final_batch")) <= 1
            /\ UploadsOf("main") # {} =>
                   (UploadsOf("final_batch") # {}) = (repos_since_last_upload > 0)

\* The probe exposes the remaining quota under neither rate nor core.
RemainingUnexposed ==
    /\ guard.rate_limit.rate.remaining = None
    /\ guard.rate_limit.core.remaining = None

\* C12: a call of check_rate_limit that saw fewer than min_remaining requests
\* left returns no earlier than the reset time plus the margin; and a call whose
\* probe exposes the remaining quota under neither field takes it to be zero and
\* waits, or has the reset behind it by the margin, before it returns.
C12_LowQuotaBlocksUntilReset ==
    guard.pc = "returned" =>
        /\ guard.remaining < guard.min_remaining =>
               /\ guard.reset_time # None
               /\ guard.now >= guard.reset_time + Margin
        /\ RemainingUnexposed =>
               /\ guard.remaining = 0
               /\ \/ guard.slept > 0
                  \/ guard.reset_time # None /\ guard.now >= guard.reset_time + Margin

\* What lines 114-118 give: a call that saw a low quota and a reset time returns
\* no earlier than the reset time plus the margin, and an unexposed quota counts
\* as zero.
GuardBlocksWhenResetKnown ==
    guard.pc = "returned" =>
        /\ (guard.remaining < guard.min_remaining /\ guard.reset_time # None) =>
               guard.now >= guard.reset_time + Margin
        /\ RemainingUnexposed => guard.remaining = 0

\* A low quota without a reset time: the call returns at once.
GuardReturnsAtOnce ==
    /\ guard.pc = "returned"
    /\ RemainingUnexposed
    /\ guard.reset_time = None
    /\ guard.slept = 0

\* C13: when the read of a bucket object fails as not found, upload_to_s3 takes
\* the bucket for empty and writes the group's records; when the read fails in
\* any other way the failure ends the run and the bucket is left as the store
\* held it: no write was issued for it.
C13_ReadFailureWritesNothing ==
    LET not_found == last_read.code \in {"NoSuchKey", "404", "NotFound"}
    IN  last_read # NoRead =>
            /\ (not_found /\ last_error # "put_object") =>
                   /\ last_upload.key = last_read.key
                   /\ last_upload.old = << >>
                   /\ buckets[last_read.key] = MergedBody(<< >>, last_upload.new)
            /\ (last_read.code # "" /\ ~not_found) =>
                   /\ phase = "aborted"
                   /\ last_error = "get_object"
                   /\ (last_read.key \in DOMAIN buckets) = last_read.had
                   /\ ReadBody(buckets, last_read.key) = last_read.body

\* The read of a bucket object that the store holds failed with a code other
\* than not found.
C13_Witness ==
    /\ last_read.code = "AccessDenied"
    /\ last_read.had
    /\ last_read.body # << >>

\* A read found no object and the group was written.
ReadFoundNothing ==
    /\ last_read.code = "NoSuchKey"
    /\ last_upload.key = last_read.key
    /\ phase = "done"

\* The repositories whose result was merged in this run while a put of their
\* markers raised: not every marker of the window was written for them.
MarkerFailed ==
    {r \in Merged : WrittenFor(r) # {_marker_key(days[i], r) : i \in 1..Len(days)}}

\* C14: a put_object that raises inside upload_to_s3, whether in a batch flush, in
\* the flush of the remaining batch or in main's final upload, ends the run; a
\* put_object that raises while the markers of a repository are written does not:
\* the records of its result stay merged, and if the run is ended, it is by a call
\* of upload_to_s3 or of check_rate_limit.
C14_WriteFailureAbortsMarkerFailureDoesNot ==
    /\ last_error = "put_object" =>
           /\ phase = "aborted"
           /\ flush \in {"batch", "final_batch", "main"}
           /\ history[Len(history)].ending = "aborted"
    /\ \A r \in MarkerFailed :
           /\ future[r].result.success =>
                  MapShas(future[r].result.commits) \subseteq MapShas(user_commits)
           /\ phase = "aborted" =>
                  last_error \in {"get_object", "put_object", "check_rate_limit"}

\* A marker write failed for a repository, the run went on to a batch flush, and
\* there a bucket write raised.
C14_Witness ==
    /\ MarkerFailed # {}
    /\ phase = "aborted"
    /\ last_error = "put_object"
    /\ flush = "batch"

\* A marker write failed for a repository and the run completed.
MarkerFailedRunDone == MarkerFailed # {} /\ phase = "done"

\* C15: a run started with force-reprocess dispatches the enumerated repositories
\* whatever markers the store holds (all of them, or the first REPO_LIMIT in
\* listing order), and no step of such a run removes a marker key from the store:
\* the marker keys after the run include those before it.
C15_ForceIgnoresAndKeepsMarkers ==
    [][/\ (FORCE_REPROCESS' /\ run' = run + 1 /\ last_error' # "startup") =>
              LET n == IF REPO_LIMIT = None \/ REPO_LIMIT > Len(AllRepos)
                       THEN Len(AllRepos) ELSE REPO_LIMIT
              IN  repos_to_process' = SubSeq(AllRepos, 1, n)
       /\ FORCE_REPROCESS' => markers \subseteq markers']_vars

\* A forced run over a store that held the markers of every repository has
\* completed, and has written again a marker that the store held.
C15_Witness ==
    /\ FORCE_REPROCESS
    /\ phase = "done"
    /\ history[Len(history)].premarked = RepoSet
    /\ Dispatched # {}
    /\ written # {}
    /\ EarlierMarkers \subseteq markers

\* C16: when an API call made during a repository's collection (the rate-limit
\* guard, the branch listing, the commit listing of a branch or its iteration)
\* raises the quota-exceeded exception, process_single_repo returns a failure
\* whose error kind is rate_limit.
C16_QuotaExceededReturnsRateLimit ==
    (task.pc = "returned" /\ task.scen.kind = "rate_limit") =>
        /\ ~task.result.success
        /\ task.result.error = "rate_limit"

\* What lines 204-290 give: quota-exceeded raised by the guard or by the branch
\* listing is returned as a rate_limit failure; raised while the commits of a
\* branch are fetched, it is the success of a collection that skipped the branch.
QuotaExceededOutsideBranches ==
    (task.pc = "returned" /\ task.scen.kind = "rate_limit") =>
        IF task.scen.where \in {"guard", "branches"}
        THEN ~task.result.success /\ task.result.error = "rate_limit"
        ELSE /\ task.result.success
             /\ task.result.skipped = {Branches(task.repo)[task.scen.branch].name}

\* The shas of the commits of branch number b that process_single_repo records
\* among the first n listed: those with an author whom is_bot_user does not
\* classify as a bot.
Recordable(repo, b, n) ==
    {Branches(repo)[b].commits[i] : i \in 1..n}
        \cap {sha \in Shas : /\ Commit(sha).has_author
                             /\ ~is_bot_user(Commit(sha).login, Commit(sha).name,
                                             Commit(sha).email)}

\* The call followed has returned after an exception was raised while the commits
\* of one branch were fetched.
BranchFetchFailed == task.pc = "returned" /\ task.scen.where = "commits"

\* The result is a success holding the recordable commits of every branch other
\* than the failed one, and beyond those only commits of the failed branch
\* fetched before the exception.
OtherBranchesCollected ==
    LET repo == task.repo
        b    == task.scen.branch
        others == UNION {Recordable(repo, o, Len(Branches(repo)[o].commits)) :
                            o \in (1..Len(Branches(repo))) \ {b}}
    IN  /\ task.result.success
        /\ others \subseteq MapShas(task.result.commits)
        /\ MapShas(task.result.commits) \subseteq others \cup Recordable(repo, b, task.scen.at)

\* C17 as stated: an exception of any kind raised while the commits of one branch
\* are fetched is skipped: the result is a success holding the non-bot commits of
\* every other branch.
C17_AnyBranchFailureIsSkipped == BranchFetchFailed => OtherBranchesCollected

\* C17, amended: an API error (GithubException) raised while the commits of one
\* branch are fetched is skipped, and the result is a success holding the non-bot
\* commits of every other branch; any other exception raised there fails the
\* repository with error kind unexpected.
C17_ApiBranchFailureIsSkipped ==
    BranchFetchFailed =>
        IF task.scen.kind \in {"rate_limit", "github_api"}
        THEN OtherBranchesCollected
        ELSE ~task.result.success /\ task.result.error = "unexpected"

\* An API error was raised on svc-api's second branch after one commit; the
\* result holds the commits of the first branch.
C17_Witness ==
    /\ BranchFetchFailed
    /\ task.repo = RepoA
    /\ task.scen.kind = "github_api"
    /\ task.scen.branch = 2
    /\ task.scen.at = 1
    /\ task.result.success
    /\ MapShas(task.result.commits) # {}

\* The dispatched repositories whose last invocation returned a failure.
FinallyFailed ==
    {r \in Dispatched : calls[r] # << >> /\ ~calls[r][Len(calls[r])].success}

\* C18: the failure of a repository's collection does not end the run: a run that
\* got to dispatch is ended only inside an upload_to_s3 call or by the closing
\* check_rate_limit of main, never in the collection loop; and when the run is
\* over the loop every dispatched repository has been collected and handled, the
\* failed list holds every repository whose last result is a failure, and no
\* repository whose retry succeeded.
C18_RepoFailureNeverAbortsRun ==
    /\ (phase = "aborted" /\ last_error # "startup") => flush # "none"
    /\ phase \in {"flush", "done"} /\ flush \in {"final_batch", "main"} =>
           /\ \A r \in Dispatched : future[r].st = "handled"
           /\ FailedNow = FinallyFailed

\* What the loop gives: exceptions of process_single_repo never reach the
\* orchestrator, and the loop is left early only when check_rate_limit raises
\* at line 369, before the retry of a repository whose first result is a
\* rate_limit failure; a run that leaves the loop normally has handled every
\* dispatched repository and lists exactly the finally failed ones.
LoopEndsOnlyByRetryGuard ==
    /\ (phase = "aborted" /\ last_error # "startup" /\ flush = "none") =>
           /\ last_error = "check_rate_limit"
           /\ calls[current] # << >>
           /\ calls[current][1].error = "rate_limit"
           /\ Len(calls[current]) = 1
    /\ phase \in {"flush", "done"} /\ flush \in {"final_batch", "main"} =>
           /\ \A r \in Dispatched : future[r].st = "handled"
           /\ FailedNow = FinallyFailed

\* The run was ended by check_rate_limit before a retry while another dispatched
\* repository had not been handled.
RetryGuardAbortLeavesRepos ==
    /\ phase = "aborted"
    /\ flush = "none"
    /\ last_error = "check_rate_limit"
    /\ \E r \in Dispatched : future[r].st # "handled"

\* The step is one of a pool worker: the task of a repository starts, or returns.
WorkerStep ==
    \E r \in RepoSet : /\ future'[r].st # future[r].st
                       /\ future'[r].st \in {"running", "done"}

\* C19: under every interleaving, a step of a pool worker leaves the run-wide
\* accumulation, the pending batch, the day-to-processed map, the failed list and
\* the store as they are, and changes nothing but the task of its own repository
\* (when it returns: the task's result); a bucket changes only in a step of the
\* orchestrating thread inside upload_to_s3, which reads, merges and writes it in
\* one piece, so that the bucket keeps every commit_id it held.
C19_WorkersLeaveSharedStateAlone ==
    [][/\ WorkerStep =>
              /\ UNCHANGED << user_commits, batch_user_commits, day_to_processed,
                              failed_repos, buckets, markers >>
              /\ \E r \in RepoSet : \A o \in RepoSet \ {r} : future'[o] = future[o]
       /\ buckets' # buckets =>
              /\ ~WorkerStep
              /\ phase = "flush"
              /\ \A k \in DOMAIN buckets :
                     k \in DOMAIN buckets' /\ ShaSet(buckets[k]) \subseteq ShaSet(buckets'[k])]_vars

\* While a batch is being uploaded and a bucket has been written, the task of
\* another repository is running on a pool worker.
C19_Witness ==
    /\ phase = "flush"
    /\ flush = "batch"
    /\ last_upload # NoUpload
    /\ Running # {}

\* The calendar days from START_DATE to END_DATE, both included.
InclusiveSpan == strptime(window.END_DATE) - strptime(window.START_DATE) + 1

\* C20: validate_date_range lets a START_DATE/END_DATE pair pass only if the
\* window, both dates included, has at most 10 days: the day-list of an accepted
\* pair has at most 10 days, and a pair whose inclusive span exceeds 10 days is
\* rejected.
C20_WindowOfAtMostTenDays ==
    /\ window.pc \in {"accepted", "listed"} => InclusiveSpan <= 10
    /\ window.pc = "listed" => Len(window.days) <= 10
    /\ window.pc = "rejected" => InclusiveSpan > 10

\* What line 69 gives: (end - start).days is END_DATE - START_DATE, so a pair is
\* rejected exactly when its inclusive span exceeds 11 days, and the day-list of
\* an accepted pair has the days of the span, up to 11.
WindowOfAtMostElevenDays ==
    /\ window.pc \in {"accepted", "listed"} => InclusiveSpan <= MaxRangeDays + 1
    /\ window.pc = "listed" =>
           Len(window.days) = (IF InclusiveSpan > 0 THEN InclusiveSpan ELSE 0)
    /\ window.pc = "rejected" => InclusiveSpan > MaxRangeDays + 1

\* A window of 11 days was accepted and its 11 days listed.
ElevenDaysListed == window.pc = "listed" /\ Len(window.days) = 11

\* The store holds the commit in the bucket of its author and of the day the
\* collector files it under.
Persisted(login, sha) ==
    LET k == s3_key(login, strftime(Commit(sha).date.ord))
    IN  k \in DOMAIN buckets /\ sha \in ShaSet(buckets[k])

\* The repositories to which this run gave a marker for every day of the window
\* after their pool task returned a success.
MarkedByRun ==
    {r \in RepoSet : /\ future[r].result.success
                     /\ future[r].st = "handled"
                     /\ WrittenFor(r) = {_marker_key(days[i], r) : i \in 1..Len(days)}}

\* C21: in every state of the store, a run aborted at any point included, a
\* repository that has a marker for every day of the window has every commit its
\* traversal collected persisted in the bucket of the commit's author and day: no
\* marker is in the store before the data it vouches for.
C21_MarkerNeverBeforeData ==
    \A r \in MarkedByRun :
        \A p \in Pairs(future[r].result.commits) : Persisted(p[1], p[2])

\* A run was aborted and left in the store the markers of a repository for every
\* day of the window, and not every commit collected from it.
MarkedAndLostByAbort ==
    /\ phase = "aborted"
    /\ \E r \in MarkedByRun :
          \E p \in Pairs(future[r].result.commits) : ~Persisted(p[1], p[2])

\* What the code gives: once main's upload has written every group, the commits
\* of the repositories the run marked are persisted.
MarkedDataPersistedWhenDone ==
    phase = "done" =>
        \A r \in MarkedByRun :
            \A p \in Pairs(future[r].result.commits) : Persisted(p[1], p[2])

\* The <<login, commit_id>> pairs of the records that successful collections have
\* returned to the orchestrator in this run and that it has merged: those of the
\* pool results handled, of the result merged last (a retry's included) and of the
\* run-wide accumulation they were merged into.
CollectedPairs ==
    UNION {Pairs(future[r].result.commits) :
              r \in {x \in RepoSet : future[x].st = "handled" /\ future[x].result.success}}
        \cup Pairs(last_merged)
        \cup Pairs(user_commits)

\* The store holds the commit in the bucket of its author and of the UTC day of
\* its author timestamp.
PersistedUnderUtcDay(login, sha) ==
    LET k == s3_key(login, strftime(UtcDate(Commit(sha).date)))
    IN  k \in DOMAIN buckets /\ sha \in ShaSet(buckets[k])

\* C22: when main has completed without error, every record that a successful
\* collection returned, on the first attempt or on the retry, is held by
\* commit_id in the bucket of its author and author day, whatever the batch size
\* and the order in which the tasks completed.
C22_EveryCollectedRecordPersisted ==
    phase = "done" => \A p \in CollectedPairs : PersistedUnderUtcDay(p[1], p[2])

\* What the code gives: when main has completed, every collected record is held
\* by commit_id in the bucket of its author and of the day of its author
\* timestamp in the timestamp's own offset.
CollectedRecordPersistedUnderOwnDay ==
    phase = "done" => \A p \in CollectedPairs : Persisted(p[1], p[2])

\* main completed after a batch flush and a successful retry, with records
\* collected from both repositories.
DoneAfterBatchAndRetry ==
    /\ phase = "done"
    /\ UploadsOf("batch") # {}
    /\ \E r \in RepoSet : Len(calls[r]) = 2 /\ calls[r][2].success
    /\ Dispatched = RepoSet
    /\ CollectedPairs # {}

\* collect_commits is over: it returned (main is uploading or has finished), or an
\* exception left it.
CollectEnded ==
    \/ phase = "done"
    \/ phase = "flush" /\ flush = "main"
    \/ phase = "aborted" /\ last_error # "startup"

\* Every dispatched repository has had its result handled, once, and is either
\* merged as a success or listed as failed, not both.
EachHandledOnceWithOneOutcome ==
    /\ processed = Cardinality(Dispatched)
    /\ \A r \in Dispatched :
          /\ future[r].st = "handled"
          /\ (r \in Merged) # (r \in FailedNow)

\* C23: whenever collect_commits is over, API calls having returned or raised,
\* the result of every dispatched repository has been handled exactly once by the
\* orchestrator, and every dispatched repository is in exactly one of the two
\* outcomes: merged as a success, or listed as failed.
C23_EveryResultHandledOnce == CollectEnded => EachHandledOnceWithOneOutcome

\* What the loop gives: a result is handled at most once per task, a repository
\* is never both merged and listed as failed once its retry is over, and when
\* collect_commits returns every dispatched repository has one of the two
\* outcomes.
HandledOnceWhenReturned ==
    /\ processed = Cardinality({r \in RepoSet : future[r].st = "handled"})
    /\ \A r \in Dispatched :
          (future[r].st = "handled" /\ ~(phase \in {"retry_guard", "retry_run"} /\ current = r)
             /\ phase # "aborted")
              => (r \in Merged) # (r \in FailedNow)
    /\ (phase = "done" \/ (phase = "flush" /\ flush \in {"final_batch", "main"})) =>
           EachHandledOnceWithOneOutcome

\* How far a started run is from its end: the work left in the pool, then the
\* place of the orchestrating thread, then the groups left to upload.
InState(st) == Cardinality({r \in RepoSet : future[r].st = st})

PlaceRank ==
    CASE phase = "retry_guard" -> 6
      [] phase = "retry_run" -> 5
      [] phase = "flush" /\ flush = "batch" -> 4
      [] phase = "collect" -> 3
      [] phase = "flush" /\ flush = "final_batch" -> 2
      [] phase = "flush" /\ flush = "main" -> 1
      [] OTHER -> 0

RunRank ==
    << 3 * InState("queued") + 2 * InState("running") + InState("done"),
       PlaceRank, Len(upq) >>

LexLess(a, b) ==
    \/ a[1] < b[1]
    \/ a[1] = b[1] /\ a[2] < b[2]
    \/ a[1] = b[1] /\ a[2] = b[2] /\ a[3] < b[3]

\* Lemma for C23: every step of a started run lowers RunRank, a triple of
\* naturals ordered lexicographically, so the run has no cycle and ends after a
\* bounded number of steps for every pool size and every interleaving.
RunStepsLowerRank ==
    [][InRun => LexLess(RunRank', RunRank)]_vars

\* The run in progress or just ended built its dispatch list with force-reprocess
\* false, and so far no invocation of process_single_repo returned a failure and
\* no put of a marker raised.
CleanRun ==
    /\ history # << >>
    /\ last_error # "startup"
    /\ ~FORCE_REPROCESS
    /\ \A r \in RepoSet : \A i \in 1..Len(calls[r]) : calls[r][i].success
    /\ \A r \in RepoSet :
          (future[r].st = "handled" /\ future[r].result.success) =>
              WrittenFor(r) = {_marker_key(days[i], r) : i \in 1..Len(days)}

\* The repositories listed, in listing order, that the store of the run's start
\* did not hold fully marked.
UnmarkedAtStart ==
    SelectSeq(AllRepos, LAMBDA r : r \notin history[Len(history)].premarked)

\* C24: the dispatch list holds at most REPO_LIMIT repositories and the cap is
\* applied after the cache filter: with force-reprocess false the list is the
\* first REPO_LIMIT repositories, in listing order, among those not fully marked
\* (all of them if fewer).  A run with force-reprocess false in which no
\* collection fails and no marker put raises leaves every repository it
\* dispatched fully marked when main completes, so the number of repositories
\* not fully marked drops by REPO_LIMIT or to zero; and such a run that ends
\* earlier, by an exception, has still marked a dispatched repository.  Once
\* every repository is fully marked the dispatch list is empty.  Hence
\* repeated runs mark every repository and then dispatch nothing.
C24_CappedRunsConverge ==
    /\ (history # << >> /\ last_error # "startup" /\ REPO_LIMIT # None) =>
           /\ Len(repos_to_process) <= REPO_LIMIT
           /\ ~FORCE_REPROCESS =>
                  /\ \A i \in 1..Len(repos_to_process) :
                        repos_to_process[i] = UnmarkedAtStart[i]
                  /\ Len(repos_to_process) < REPO_LIMIT =>
                        Len(repos_to_process) = Len(UnmarkedAtStart)
    /\ (CleanRun /\ phase = "done") =>
           FullyMarked(markers) = history[Len(history)].premarked \cup Dispatched
    /\ (CleanRun /\ phase = "aborted" /\ Dispatched # {}) =>
           (FullyMarked(markers) \cap Dispatched) # {}
    /\ (history # << >> /\ last_error # "startup" /\ ~FORCE_REPROCESS
           /\ history[Len(history)].premarked = RepoSet) =>
           Dispatched = {}

\* From the empty store, two runs with REPO_LIMIT=1 and force-reprocess false,
\* each collecting and marking the repository it dispatched: the first svc-api,
\* the second lib.done; every repository is then fully marked.
C24_Witness ==
    /\ REPO_LIMIT = 1
    /\ run = 2
    /\ phase = "done"
    /\ CleanRun
    /\ ~history[1].force
    /\ history[1].premarked = {}
    /\ history[1].dispatch = {RepoA}
    /\ Dispatched = {RepoB}
    /\ FullyMarked(markers) = RepoSet

\* A run with force-reprocess false that found every repository fully marked
\* reached dispatch and completed with nothing dispatched.
AllMarkedRunDispatchesNothing ==
    /\ REPO_LIMIT = 1
    /\ phase = "done"
    /\ CleanRun
    /\ history[Len(history)].premarked = RepoSet
    /\ Dispatched = {}
    /\ processed = 0

(***************************************************************************)
(* The report reader: collect_all_commits of report_commits.py             *)
(***************************************************************************)
\* Lines 93-100: the keys read with commit[...], which raises KeyError when the
\* key is missing.
SubscriptedFields == {"sha", "date", "repository", "message", "stats", "url"}

\* Lines 97-99: the keys read of commit['stats'].
StatsFields == {"additions", "deletions", "total"}

\* Lines 91-92: the keys read with commit.get(key, '').
DefaultedFields == {"author_name", "author_email"}

\* Lines 88-101: the row built of one record of a bucket, or the KeyError that
\* leaves collect_all_commits.
ReportRow(commit) ==
    IF SubscriptedFields \subseteq DOMAIN commit
    THEN IF StatsFields \subseteq DOMAIN commit.stats
         THEN [raised |-> "", commit_sha |-> commit.sha]
         ELSE [raised |-> "KeyError", commit_sha |-> commit.sha]
    ELSE [raised |-> "KeyError", commit_sha |-> ""]

\* Lines 48-68 and 87-101: the rows of the records of every bucket of the store.
ReportRows ==
    {ReportRow(buckets[k][i]) : <<k, i>> \in
        UNION {{<<key, j>> : j \in 1..Len(buckets[key])} : key \in DOMAIN buckets}}

\* C25: every record of a bucket that upload_to_s3 has written holds every key
\* the report reader subscripts, so that building its row raises no KeyError.
C25_ReaderFindsEveryField ==
    last_upload # NoUpload => \A row \in ReportRows : row.raised = ""

\* Lemma for C25: every record of a bucket holds the eight keys of commit_data,
\* which cover every key the reader reads except stats.
PersistedRecordHasCollectorFields ==
    \A k \in DOMAIN buckets : \A i \in 1..Len(buckets[k]) :
        /\ DOMAIN buckets[k][i] = DOMAIN commit_data(RepoA, "c1")
        /\ (SubscriptedFields \ {"stats"}) \cup DefaultedFields \subseteq DOMAIN buckets[k][i]
        /\ "stats" \notin DOMAIN buckets[k][i]

\* The run has written a bucket and the reader raises on one of its records.
ReaderRaisesOnWrittenBucket ==
    /\ last_upload # NoUpload
    /\ last_upload.key \in DOMAIN buckets
    /\ \E i \in 1..Len(buckets[last_upload.key]) :
          ReportRow(buckets[last_upload.key][i]).raised = "KeyError"

=============================================================================
